---- MODULE Spec2Model ----
(***************************************************************************)
(* Model of the Formalizer pipeline (NRHLYM/AutoFormalization):            *)
(*   stage 1  GoTPlanner.run          concept graph decomposition          *)
(*   stage 2  GoTSynthesizer.run      build order, worker pool, documents  *)
(*   stage 3  SemanticAlignmentModule back-translation, judgment, KB save  *)
(*   main     process_single_problem  the result record                    *)
(* Strings are sequences of one-character strings so that the two name     *)
(* normalisations of the code are computed, not assumed.                   *)
(***************************************************************************)
EXTENDS Integers, Sequences, FiniteSets, TLC

VARIABLES
    image_path,        \* main.py: gen_image_path is set (TRUE) or None (FALSE)
    nodes,             \* ConceptualGraph.nodes: node id |-> ConceptNode (ids are 1..Len, root = 1)
    nodes_by_name,     \* ConceptualGraph._nodes_by_name: key |-> node id
    queue,             \* GoTPlanner.run: queue (deque of node ids)
    queue_log,         \* GoTPlanner.run: queue_log (set of keys)
    last_expansion,    \* GoTPlanner.run: the node last expanded and the name keys of its expansion
    pc,                \* position of the single-problem pipeline
    build_order,       \* result of get_build_order() held by the running stage
    pos,               \* GoTSynthesizer.run: index of `node` in `for node in build_order`
    synthesized_cache, \* GoTSynthesizer.run: synthesized_cache (key |-> code)
    grounded_set,      \* GoTSynthesizer.run: grounded_set
    final_code_pieces, \* GoTSynthesizer.run: final_code_pieces
    dep_chunks,        \* GoTSynthesizer.run: dep_chunks handed to the pool of the current node
    stop_event,        \* GoTSynthesizer.run: stop_event of the current pool
    workers,           \* worker id |-> locals and position of _synthesis_worker
    consumed,          \* futures already yielded by as_completed in the current pool
    success_code,      \* GoTSynthesizer.run: success_code (None is NoCode)
    winners,           \* workers whose result was assigned to success_code in the current pool
    launched,          \* ids of the nodes for which a pool was launched
    final_lean_code,   \* the document returned by GoTSynthesizer.run
    result_summary,    \* main.py: result_summary
    save_calls,        \* number of calls of save_verified_nodes made by alignment
    kb_file,           \* contents of verified_knowledge_base.json
    kb_loaded,         \* result of the load_knowledge_base() that follows the run
    kb_lock,           \* knowledge_base._lock (threading.RLock): owning thread (0 = none) and depth
    kb_threads,        \* threads calling save_verified_nodes / load_knowledge_base: position and locals
    batch,             \* main.py main(): the tasks read, the loop position and summary.jsonl
    search,            \* LeanSearchClient._search_web: the retry loop of one call
    compile_call       \* LeanCompiler.compile_code: one call, its temp file and its result

planner_vars == <<image_path, nodes, nodes_by_name, queue, queue_log, last_expansion>>
pool_vars == <<dep_chunks, stop_event, workers, consumed, success_code, winners>>
synth_vars == <<pos, synthesized_cache, grounded_set, final_code_pieces, launched>>
kb_vars == <<kb_lock, kb_threads>>
main_vars == <<final_lean_code, result_summary, save_calls, kb_file, kb_loaded, kb_vars>>
aux_vars == <<batch, search, compile_call>>

vars == <<image_path, nodes, nodes_by_name, queue, queue_log, last_expansion, pc, build_order,
          pos, synthesized_cache, grounded_set, final_code_pieces,
          dep_chunks, stop_event, workers, consumed, success_code, winners, launched,
          final_lean_code, result_summary, save_calls, kb_file, kb_loaded, kb_lock, kb_threads,
          batch, search, compile_call>>

----------------------------------------------------------------------------
(* Bounds of the model *)

\* longest list of concept names one expansion call returns (planner specification)
MaxDeps == 2

----------------------------------------------------------------------------
(* Strings *)

RECURSIVE SeqsUpTo(_, _)
SeqsUpTo(S, n) ==
    IF n = 0 THEN {<<>>}
    ELSE LET shorter == SeqsUpTo(S, n - 1)
         IN shorter \cup {Append(s, x) : s \in {t \in shorter : Len(t) = n - 1}, x \in S}

\* str.lower() on one character
LowerChar(c) ==
    CASE c = "A" -> "a"
      [] c = "B" -> "b"
      [] c = "C" -> "c"
      [] c = "S" -> "s"
      [] OTHER -> c

\* str.lower()
Lower(s) == [i \in 1..Len(s) |-> LowerChar(s[i])]

\* str.strip(): drop leading and trailing whitespace
RECURSIVE LStrip(_)
LStrip(s) == IF s # <<>> /\ Head(s) = " " THEN LStrip(Tail(s)) ELSE s

RECURSIVE RStrip(_)
RStrip(s) == IF s # <<>> /\ s[Len(s)] = " " THEN RStrip(SubSeq(s, 1, Len(s) - 1)) ELSE s

Strip(s) == RStrip(LStrip(s))

\* re.sub(r"\s+", " ", s): every maximal run of whitespace becomes one space
RECURSIVE CollapseWs(_)
CollapseWs(s) ==
    IF s = <<>> THEN <<>>
    ELSE IF Head(s) = " " /\ Len(s) > 1 /\ s[2] = " " THEN CollapseWs(Tail(s))
    ELSE <<Head(s)>> \o CollapseWs(Tail(s))

\* name.lower().strip(): the key of the graph's name index, of queue_log and of the knowledge base
NameKey(name) == Strip(Lower(name))

\* GoTSynthesizer._normalize_node_name / SemanticAlignmentModule._normalize_node_name
normalize_node_name(name) == Lower(Strip(CollapseWs(name)))

----------------------------------------------------------------------------
(* Concept graph *)

TO_EXPAND == "TO_EXPAND"
GROUNDED == "GROUNDED"
TO_SYNTHESIZE == "TO_SYNTHESIZE"

\* Python values whose type the code compares: a list (its items as a set) and a str
PyList(items) == [type |-> "list", items |-> items]
PyStr(chars) == [type |-> "str", chars |-> chars]

\* ConceptNode.__init__
ConceptNode(name, parent) ==
    [name |-> Strip(name), status |-> TO_EXPAND, dependencies |-> <<>>,
     parent |-> parent, grounded_definition |-> PyList({})]

\* the graph as a value: [nodes, nodes_by_name]
Graph(ns, idx) == [nodes |-> ns, nodes_by_name |-> idx]

\* ConceptualGraph.__init__
ConceptualGraph(root_name) ==
    LET root == ConceptNode(root_name, 0)
    IN Graph(<<root>>, (NameKey(root.name) :> 1))

\* a plausible slip of the lookup: the index is never hit
find_node_by_name_miss(g, name) == 0

\* ConceptualGraph.find_node_by_name: node id, or 0 for None
find_node_by_name(g, name) ==
    IF NameKey(name) \in DOMAIN g.nodes_by_name THEN g.nodes_by_name[NameKey(name)] ELSE 0

\* a plausible slip of add_node: the index keyed by the display name, not the normalised one
add_node_raw_key(g, name, parent) ==
    LET new_node == ConceptNode(name, parent)
        id == Len(g.nodes) + 1
        ns == Append([g.nodes EXCEPT ![parent].dependencies = Append(@, id)], new_node)
    IN Graph(ns, (new_node.name :> id) @@ g.nodes_by_name)

\* a plausible variant of add_node: a node already indexed under the name is returned and linked
add_node_dedup(g, name, parent) ==
    LET existing == find_node_by_name(g, name)
    IN IF existing # 0
       THEN Graph([g.nodes EXCEPT ![parent].dependencies = Append(@, existing)], g.nodes_by_name)
       ELSE LET id == Len(g.nodes) + 1
            IN Graph(Append([g.nodes EXCEPT ![parent].dependencies = Append(@, id)],
                            ConceptNode(name, parent)),
                     (NameKey(name) :> id) @@ g.nodes_by_name)

\* ConceptualGraph.add_node: always creates a node, appends the edge, overwrites the index entry
add_node(g, name, parent) ==
    LET new_node == ConceptNode(name, parent)
        id == Len(g.nodes) + 1
        ns == Append([g.nodes EXCEPT ![parent].dependencies = Append(@, id)], new_node)
    IN Graph(ns, (NameKey(new_node.name) :> id) @@ g.nodes_by_name)

\* Python's None where a code text is expected, and where a str is expected
NoCode == <<[t |-> "None", v |-> "None"]>>
NoneStr == "None"

\* no document returned yet
NoDocument == [imports |-> <<>>, blocks |-> <<>>]

\* verified_knowledge_base.json does not exist
KBAbsent == [type |-> "absent"]

\* process_single_problem: result_summary as first built
InitialSummary ==
    [status |-> "failed", compilation_passed |-> FALSE, semantic_passed |-> FALSE,
     error |-> NoneStr, consistency_level |-> "N/A", generated_code |-> <<>>]

InSeq(x, s) == \E i \in 1..Len(s) : s[i] = x

\* ConceptualGraph.get_build_order: post-order DFS from the root, visited set keyed by id
RECURSIVE post_order_traverse(_, _, _)
RECURSIVE TraverseDeps(_, _, _, _)
post_order_traverse(ns, n, st) ==
    IF n \in st.visited THEN st
    ELSE LET st1 == [st EXCEPT !.visited = @ \cup {n}]
             st2 == TraverseDeps(ns, ns[n].dependencies, 1, st1)
         IN [st2 EXCEPT !.order = Append(@, n)]
TraverseDeps(ns, deps, i, st) ==
    IF i > Len(deps) THEN st
    ELSE TraverseDeps(ns, deps, i + 1, post_order_traverse(ns, deps[i], st))

\* a plausible slip of the traversal: a node is listed before its dependencies are visited
RECURSIVE pre_order_traverse(_, _, _)
RECURSIVE PreTraverseDeps(_, _, _, _)
pre_order_traverse(ns, n, st) ==
    IF n \in st.visited THEN st
    ELSE PreTraverseDeps(ns, ns[n].dependencies, 1,
                         [visited |-> st.visited \cup {n}, order |-> Append(st.order, n)])
PreTraverseDeps(ns, deps, i, st) ==
    IF i > Len(deps) THEN st
    ELSE PreTraverseDeps(ns, deps, i + 1, pre_order_traverse(ns, deps[i], st))

get_build_order_pre_order(ns) == pre_order_traverse(ns, 1, [visited |-> {}, order |-> <<>>]).order

get_build_order(ns) == post_order_traverse(ns, 1, [visited |-> {}, order |-> <<>>]).order

----------------------------------------------------------------------------
(* Stage 1: GoTPlanner.run *)

\* GoTPlanner.verified_kb: load_knowledge_base() is commented out, the planner's KB is empty
planner_verified_kb == {}

\* planner state threaded through the loops over an expansion's names
PState(g, q, ql) == [g |-> g, queue |-> q, queue_log |-> ql]

\* a plausible slip of the loop body: a name that is already in the graph is linked and
\* put on the queue again
LinkName_requeue(ps, name, cur, checkSelf) ==
    LET name_key == NameKey(name)
        existing == find_node_by_name(ps.g, name_key)
    IN IF name_key = <<>> THEN ps
       ELSE IF existing # 0 THEN
            IF checkSelf /\ existing = cur THEN ps
            ELSE [ps EXCEPT !.g.nodes[cur].dependencies =
                                IF InSeq(existing, @) THEN @ ELSE Append(@, existing),
                            !.queue = Append(@, existing)]
       ELSE LET g2 == add_node(ps.g, name, cur)
            IN PState(g2, Append(ps.queue, Len(g2.nodes)), ps.queue_log \cup {name_key})

\* a plausible slip of the loop body: a new name is enqueued but not marked in queue_log
LinkName_no_log(ps, name, cur, checkSelf) ==
    LET name_key == NameKey(name)
        existing == find_node_by_name(ps.g, name_key)
    IN IF name_key = <<>> THEN ps
       ELSE IF existing # 0 THEN
            IF checkSelf /\ existing = cur THEN ps
            ELSE IF ~InSeq(existing, ps.g.nodes[cur].dependencies)
                 THEN [ps EXCEPT !.g.nodes[cur].dependencies = Append(@, existing)]
                 ELSE ps
       ELSE LET g2 == add_node(ps.g, name, cur)
            IN PState(g2, Append(ps.queue, Len(g2.nodes)), ps.queue_log)

\* one iteration of `for name in dependency_names` for the node `cur`
\* (root loop: no self-loop check; child loop: self-loop check by id)
LinkName(ps, name, cur, checkSelf) ==
    LET name_key == NameKey(name)
        existing == find_node_by_name(ps.g, name_key)
    IN IF name_key = <<>> THEN ps
       ELSE IF existing # 0 THEN
            IF checkSelf /\ existing = cur THEN ps
            ELSE IF ~InSeq(existing, ps.g.nodes[cur].dependencies)
                 THEN [ps EXCEPT !.g.nodes[cur].dependencies = Append(@, existing)]
                 ELSE ps
       ELSE LET g2 == add_node(ps.g, name, cur)
                id == Len(g2.nodes)
            IN IF name_key \notin ps.queue_log
               THEN PState(g2, Append(ps.queue, id), ps.queue_log \cup {name_key})
               ELSE PState(g2, ps.queue, ps.queue_log)

RECURSIVE LinkNames(_, _, _, _, _)
LinkNames(ps, names, i, cur, checkSelf) ==
    IF i > Len(names) THEN ps
    ELSE LinkNames(LinkName(ps, names[i], cur, checkSelf), names, i + 1, cur, checkSelf)

\* a call of run_expansion_module: the node it was made for and the non-blank name keys
\* (name.lower().strip()) of the list it returned
Expansion(node, names) ==
    [node |-> node, keys |-> {NameKey(names[i]) : i \in 1..Len(names)} \ {<<>>}]
NoExpansion == Expansion(0, <<>>)

\* GoTPlanner.run up to the while loop: force the root to TO_SYNTHESIZE, expand it, enqueue
PlannerExpandRoot(dependency_names) ==
    /\ pc = "plan_root"
    /\ LET g0 == Graph([nodes EXCEPT ![1].status = TO_SYNTHESIZE], nodes_by_name)
           ps == LinkNames(PState(g0, <<>>, {NameKey(nodes[1].name)}), dependency_names, 1, 1, FALSE)
       IN /\ nodes' = ps.g.nodes
          /\ nodes_by_name' = ps.g.nodes_by_name
          /\ queue' = ps.queue
          /\ queue_log' = ps.queue_log
    /\ last_expansion' = Expansion(1, dependency_names)
    /\ pc' = "plan_loop"
    /\ UNCHANGED <<aux_vars, image_path, build_order, synth_vars, pool_vars, main_vars>>

\* LLMModules.run_grounding_reasoner's result: [is_found, definitions]
GroundingResult(found, defs) == [is_found |-> found, definitions |-> defs]

\* a plausible slip of the merge: the vision channel's answer is dropped
combined_defs_text_only(res_text, res_vision, has_image) ==
    IF res_text.is_found /\ res_text.definitions # {} THEN res_text.definitions ELSE {}

\* the merge of the two grounding channels (stage1_planner.py, combined_defs)
combined_defs(res_text, res_vision, has_image) ==
    (IF res_text.is_found /\ res_text.definitions # {} THEN res_text.definitions ELSE {})
    \cup
    (IF has_image /\ res_vision.is_found /\ res_vision.definitions # {}
     THEN res_vision.definitions ELSE {})

\* a plausible slip of the loop body: the `continue` after grounding is missing, the node
\* keeps its GROUNDED status and is expanded all the same
PlannerProcessNode_no_continue(res_text, res_vision, dependency_names) ==
    /\ pc = "plan_loop"
    /\ queue # <<>>
    /\ LET current_node == Head(queue)
           final_definitions == combined_defs(res_text, res_vision, image_path)
           g0 == Graph([nodes EXCEPT ![current_node].status =
                                        IF final_definitions # {} THEN GROUNDED ELSE TO_SYNTHESIZE,
                                     ![current_node].grounded_definition = PyList(final_definitions)],
                       nodes_by_name)
           ps == LinkNames(PState(g0, Tail(queue), queue_log), dependency_names, 1, current_node, TRUE)
       IN /\ nodes' = ps.g.nodes
          /\ nodes_by_name' = ps.g.nodes_by_name
          /\ queue' = ps.queue
          /\ queue_log' = ps.queue_log
          /\ last_expansion' = Expansion(current_node, dependency_names)
    /\ UNCHANGED <<aux_vars, image_path, pc, build_order, synth_vars, pool_vars, main_vars>>

\* one iteration of `while queue`
PlannerProcessNode(res_text, res_vision, dependency_names) ==
    /\ pc = "plan_loop"
    /\ queue # <<>>
    /\ LET current_node == Head(queue)
           current_name_key == NameKey(nodes[current_node].name)
           final_definitions == combined_defs(res_text, res_vision, image_path)
       IN IF current_name_key \in planner_verified_kb THEN
               /\ nodes' = [nodes EXCEPT ![current_node].status = GROUNDED,
                                         ![current_node].grounded_definition = PyList({"VerifiedKB"})]
               /\ queue' = Tail(queue)
               /\ UNCHANGED <<nodes_by_name, queue_log, last_expansion>>
          ELSE IF final_definitions # {} THEN
               /\ nodes' = [nodes EXCEPT ![current_node].status = GROUNDED,
                                         ![current_node].grounded_definition = PyList(final_definitions)]
               /\ queue' = Tail(queue)
               /\ UNCHANGED <<nodes_by_name, queue_log, last_expansion>>
          ELSE LET g0 == Graph([nodes EXCEPT ![current_node].status = TO_SYNTHESIZE], nodes_by_name)
                   ps == LinkNames(PState(g0, Tail(queue), queue_log),
                                   dependency_names, 1, current_node, TRUE)
               IN /\ nodes' = ps.g.nodes
                  /\ nodes_by_name' = ps.g.nodes_by_name
                  /\ queue' = ps.queue
                  /\ queue_log' = ps.queue_log
                  /\ last_expansion' = Expansion(current_node, dependency_names)
    /\ UNCHANGED <<aux_vars, image_path, pc, build_order, synth_vars, pool_vars, main_vars>>

\* the while loop ends: run returns the graph, its locals are dropped
PlannerReturn ==
    /\ pc = "plan_loop"
    /\ queue = <<>>
    /\ last_expansion' = NoExpansion
    /\ pc' = "planned"
    /\ UNCHANGED <<aux_vars, image_path, nodes, nodes_by_name, queue, queue_log,
                   build_order, synth_vars, pool_vars, main_vars>>

\* a plausible slip of the traversal: the edges are consumed while they are followed
build_order_call_consuming(g) ==
    [order |-> get_build_order(g.nodes),
     graph |-> Graph([n \in 1..Len(g.nodes) |-> [g.nodes[n] EXCEPT !.dependencies = <<>>]],
                     g.nodes_by_name)]

\* a call of get_build_order(): the list returned and the graph after the call; build_order
\* and visited are locals of the call and the traversal only reads the nodes
build_order_call(g) == [order |-> get_build_order(g.nodes), graph |-> g]

\* a consumer of the graph calls get_build_order(), and calls it a second time
CallGetBuildOrder ==
    /\ pc \in {"planned", "ordered"}
    /\ LET r == build_order_call(Graph(nodes, nodes_by_name))
       IN /\ build_order' = r.order
          /\ nodes' = r.graph.nodes
          /\ nodes_by_name' = r.graph.nodes_by_name
    /\ pc' = IF pc = "planned" THEN "ordered" ELSE "reordered"
    /\ UNCHANGED <<aux_vars, image_path, queue, queue_log, last_expansion,
                   synth_vars, pool_vars, main_vars>>

----------------------------------------------------------------------------
(* Specification of the planner: statements and expansion answers *)

PlanStatements == {<<"S", " ">>}
PlanChildNames == {<<"a">>, <<"A">>, <<"b">>, <<"s">>}
PlanExpansions == SeqsUpTo(PlanChildNames, MaxDeps)

\* answers of the text channel and of the vision channel
TextResults == {GroundingResult(FALSE, {}), GroundingResult(TRUE, {}), GroundingResult(TRUE, {"D1"})}
VisionResults == {GroundingResult(FALSE, {}), GroundingResult(TRUE, {"D1", "D2"})}

\* no batch has been started, no web search and no compile call is in progress
NoBatch == [pc |-> "idle", tasks |-> <<>>, i |-> 0, summary |-> <<>>,
            compiled_count |-> 0, semantic_count |-> 0]
NoSearch == [pc |-> "idle", attempt |-> 0, requests |-> 0, sleeps |-> 0,
             errors |-> <<>>, result |-> <<>>]
NoCompile == [pc |-> "idle", fname |-> "", dir_exists |-> FALSE, file_exists |-> FALSE,
              written |-> FALSE, exit_path |-> "none", status |-> "none",
              remove_failed |-> FALSE]

InitGraph(statements) ==
    /\ image_path \in BOOLEAN
    /\ \E s \in statements :
          LET g == ConceptualGraph(s)
          IN nodes = g.nodes /\ nodes_by_name = g.nodes_by_name
    /\ queue = <<>>
    /\ queue_log = {}
    /\ last_expansion = NoExpansion
    /\ pc = "plan_root"
    /\ build_order = <<>>
    /\ pos = 0
    /\ synthesized_cache = <<>>
    /\ grounded_set = {}
    /\ final_code_pieces = <<>>
    /\ dep_chunks = <<>>
    /\ stop_event = FALSE
    /\ workers = <<>>
    /\ consumed = {}
    /\ success_code = NoCode
    /\ winners = {}
    /\ launched = {}
    /\ final_lean_code = NoDocument
    /\ result_summary = InitialSummary
    /\ save_calls = 0
    /\ kb_loaded = <<>>
    /\ kb_lock = [owner |-> 0, depth |-> 0]
    /\ kb_threads = <<>>
    /\ batch = NoBatch
    /\ search = NoSearch
    /\ compile_call = NoCompile

InitPlan == InitGraph(PlanStatements) /\ kb_file = KBAbsent

NextPlan ==
    \/ \E deps \in PlanExpansions : PlannerExpandRoot(deps)
    \/ \E rt \in TextResults, rv \in VisionResults, deps \in PlanExpansions :
          PlannerProcessNode(rt, rv, deps)
    \/ PlannerReturn
    \/ CallGetBuildOrder

SpecPlan == InitPlan /\ [][NextPlan]_vars

-----------------------------------------------------------------------------
(* Specification of the planner's grounding step: the answers of both channels *)

GroundExpansions == {<<>>, <<<<"a">>>>, <<<<"a">>, <<"b">>>>}

\* answers of run_grounding_reasoner: NO_MATCH, FOUND with nothing, FOUND with identifiers
GroundResults ==
    {GroundingResult(FALSE, {}), GroundingResult(TRUE, {}), GroundingResult(TRUE, {"D1"}),
     GroundingResult(TRUE, {"D2"}), GroundingResult(TRUE, {"D1", "D2"})}

NextGround ==
    \/ \E deps \in GroundExpansions : PlannerExpandRoot(deps)
    \/ \E rt \in GroundResults, rv \in GroundResults, deps \in GroundExpansions :
          PlannerProcessNode(rt, rv, deps)
    \/ PlannerReturn

SpecGround == InitPlan /\ [][NextGround]_vars

----------------------------------------------------------------------------
(* Stage 2: code text, documents *)

\* config.CONCURRENT_WORKERS and config.ATTEMPTS_PER_WORKER; the template ships 1 and 12,
\* the model runs a pool of 2 workers with 2 attempts each so that races and repairs occur
CONCURRENT_WORKERS == 2
ATTEMPTS_PER_WORKER == 2

WorkerIds == 0..(CONCURRENT_WORKERS - 1)

\* a line of Lean text: kind and payload
Line(t, v) == [t |-> t, v |-> v]

\* BASE_IMPORTS (abridged to one import line and one non-import directive)
BASE_IMPORTS == <<Line("import", "Mathlib"), Line("open", "PhysLean")>>

\* re.match(r"^\s*import\s+.+", ln) / re.findall(r"^(import .*)$", ...)
IsImportLine(ln) == ln.t = "import"

\* code_like: a line starting with def/theorem/lemma/structure/inductive/namespace
IsCodeLikeLine(ln) == ln.t = "code"

\* re.sub(r"^(import .*)$", "", current_code, flags=re.MULTILINE).strip()
code_without_imports(code) == SelectSeq(code, LAMBDA ln : ~IsImportLine(ln))

\* truth value of a str result: None and "" are falsy
Truthy(code) == code # NoCode /\ code # <<>>

\* GoTSynthesizer._build_final_code_string: [imports, blocks]
RECURSIVE DedupSeq(_, _)
DedupSeq(s, seen) ==
    IF s = <<>> THEN <<>>
    ELSE IF Head(s) \in seen THEN DedupSeq(Tail(s), seen)
    ELSE <<Head(s)>> \o DedupSeq(Tail(s), seen \cup {Head(s)})

RECURSIVE CollectImports(_)
CollectImports(pieces) ==
    IF pieces = <<>> THEN <<>>
    ELSE SelectSeq(Head(pieces), IsImportLine) \o CollectImports(Tail(pieces))

RECURSIVE CollectBlocks(_)
CollectBlocks(pieces) ==
    IF pieces = <<>> THEN <<>>
    ELSE LET block == SelectSeq(Head(pieces), LAMBDA ln : ~IsImportLine(ln))
         IN (IF block # <<>> THEN <<block>> ELSE <<>>) \o CollectBlocks(Tail(pieces))

build_final_code_string(pieces) ==
    [imports |-> DedupSeq(BASE_IMPORTS \o CollectImports(pieces), {}),
     blocks |-> CollectBlocks(pieces)]

\* a plausible slip of the truncation check: the marker is never seen
ContainsFatal_never(doc) == FALSE

\* main.py: "-- FATAL:" in final_lean_code
ContainsFatal(doc) ==
    \E b \in 1..Len(doc.blocks) : \E i \in 1..Len(doc.blocks[b]) : doc.blocks[b][i].t = "fatal"

----------------------------------------------------------------------------
(* Stage 2: dependency collection *)

\* GoTSynthesizer.verified_kb: load_knowledge_base() is commented out, the KB is the empty dict
synth_verified_kb == <<>>

\* _collect_transitive_synthesized_code, the dfs: st = [seen, order, missing]
RECURSIVE cts_dfs(_, _, _, _, _)
RECURSIVE cts_deps(_, _, _, _, _, _)
cts_dfs(ns, n, st, cache, gset) == cts_deps(ns, ns[n].dependencies, 1, st, cache, gset)
cts_deps(ns, deps, i, st, cache, gset) ==
    IF i > Len(deps) THEN st
    ELSE LET d == deps[i]
             dn == normalize_node_name(ns[d].name)
         IN IF dn \in st.seen THEN cts_deps(ns, deps, i + 1, st, cache, gset)
            ELSE LET st1 == cts_dfs(ns, d, [st EXCEPT !.seen = @ \cup {dn}], cache, gset)
                     st2 == IF dn \in DOMAIN cache THEN [st1 EXCEPT !.order = Append(@, dn)]
                            ELSE IF dn \in gset THEN st1
                            ELSE IF dn \in DOMAIN synth_verified_kb THEN st1
                            ELSE [st1 EXCEPT !.missing = @ \cup {dn}]
                 IN cts_deps(ns, deps, i + 1, st2, cache, gset)

\* a plausible slip of the collection: absent dependencies are not reported
collect_ignores_missing(ns, n, cache, gset) ==
    LET st == cts_dfs(ns, n, [seen |-> {}, order |-> <<>>, missing |-> {}], cache, gset)
        kept == SelectSeq(st.order,
                    LAMBDA dn : cache[dn] # <<>> /\ \E i \in 1..Len(cache[dn]) : IsCodeLikeLine(cache[dn][i]))
    IN [chunks |-> [i \in 1..Len(kept) |-> <<Line("dep", kept[i])>> \o cache[kept[i]]],
        missing |-> {}]

\* _collect_transitive_synthesized_code: [chunks, missing]
collect_transitive_synthesized_code(ns, n, cache, gset) ==
    LET st == cts_dfs(ns, n, [seen |-> {}, order |-> <<>>, missing |-> {}], cache, gset)
        kept == SelectSeq(st.order,
                    LAMBDA dn : cache[dn] # <<>> /\ \E i \in 1..Len(cache[dn]) : IsCodeLikeLine(cache[dn][i]))
    IN [chunks |-> [i \in 1..Len(kept) |-> <<Line("dep", kept[i])>> \o cache[kept[i]]],
        missing |-> st.missing]

\* _recursively_paste_from_kb: st = [pieces, cache, gset]
RECURSIVE recursively_paste_from_kb(_, _)
RECURSIVE paste_deps(_, _, _)
recursively_paste_from_kb(node_key, st) ==
    IF node_key \in DOMAIN st.cache \/ node_key \in st.gset THEN st
    ELSE IF node_key \notin DOMAIN synth_verified_kb
         THEN [st EXCEPT !.gset = @ \cup {node_key}]
         ELSE LET kb_entry == synth_verified_kb[node_key]
                  st1 == paste_deps(kb_entry.deps, 1, st)
              IN [pieces |-> Append(st1.pieces, <<Line("kbsep", node_key)>> \o kb_entry.code),
                  cache |-> (normalize_node_name(node_key) :> kb_entry.code) @@ st1.cache,
                  gset |-> st1.gset]
paste_deps(deps, i, st) ==
    IF i > Len(deps) THEN st
    ELSE paste_deps(deps, i + 1, recursively_paste_from_kb(deps[i], st))

----------------------------------------------------------------------------
(* Stage 2: _synthesis_worker *)

\* the node the scheduler is at
CurNode == build_order[pos]

\* is_root as run computes it, and original_question
is_root_node == normalize_node_name(Strip(nodes[CurNode].name)) = normalize_node_name(nodes[1].name)
original_question == nodes[1].name

\* the executor's threads run from submission until the `with` block has been left
PoolRunning == pc \in {"pool", "pool_exit"}

\* the generation call of the attempt in progress: which module, and the failed code and
\* error it was given
LLMCall(kind, failed_code, error_message) ==
    [kind |-> kind, failed_code |-> failed_code, error_message |-> error_message]
NoCall == LLMCall("none", <<>>, "")

\* locals of a worker at submission
NewWorker ==
    [pc |-> "boundary", attempt |-> 0, current_code |-> <<>>, failed_code |-> <<>>,
     error_message |-> "", result |-> NoCode,
     gen_calls |-> 0, compile_calls |-> 0, judged_level_3 |-> FALSE, call |-> NoCall]

\* a plausible slip of the compile call: no request_id is passed
request_id_omitted(worker_id) == ""

\* _synthesis_worker: request_id=f"worker_{worker_id}"
request_id(worker_id) == "worker_" \o ToString(worker_id)

\* compile_code: the name of the temporary file, "Temp_{request_id}.lean" when a request id
\* is given and "Temp.lean" otherwise
temp_file_name(rid) ==
    IF rid # "" THEN "Temp" \o "_" \o rid \o ".lean" ELSE "Temp" \o ".lean"

\* a plausible slip of the attempt boundary: the cancellation flag is not consulted
boundary_outcome_ignores_flag(attempt, flag) ==
    IF attempt >= ATTEMPTS_PER_WORKER THEN "done" ELSE "generate"

\* the head of `for attempt in range(attempts)`: leave the loop when the attempts are used up,
\* return None when stop_event is set, otherwise start the attempt
boundary_outcome(attempt, flag) ==
    IF attempt >= ATTEMPTS_PER_WORKER \/ flag THEN "done" ELSE "generate"

\* `for attempt in range(attempts): if stop_event.is_set(): return None`, and the return after the loop
WorkerBoundary(w) ==
    /\ PoolRunning
    /\ workers[w].pc = "boundary"
    /\ workers' = [workers EXCEPT ![w].pc = boundary_outcome(workers[w].attempt, stop_event),
                                  ![w].call = NoCall]
    /\ UNCHANGED <<aux_vars, planner_vars, pc, build_order, synth_vars, dep_chunks, stop_event,
                   consumed, success_code, winners, main_vars>>

\* a plausible slip of the repair call: failed_code and error_message are shared by the
\* pool, so the call is seeded with what the first worker left
generation_call_shared(ws, w) ==
    IF ws[w].attempt = 0 THEN LLMCall("synthesis", <<>>, "")
    ELSE LLMCall("reflection", ws[0].failed_code, ws[0].error_message)

\* `if attempt == 0: run_synthesis_module(...) else: run_reflection_module(node_name,
\* prompt_context, failed_code, error_message)` with the worker's own locals
generation_call(ws, w) ==
    IF ws[w].attempt = 0 THEN LLMCall("synthesis", <<>>, "")
    ELSE LLMCall("reflection", ws[w].failed_code, ws[w].error_message)

\* step 1 of an attempt: run_synthesis_module (attempt 0) or run_reflection_module returns `code`
WorkerGenerate(w, code) ==
    /\ PoolRunning
    /\ workers[w].pc = "generate"
    /\ LET me == workers[w]
           called == [me EXCEPT !.current_code = code, !.gen_calls = @ + 1,
                                !.call = generation_call(workers, w)]
       IN workers' = [workers EXCEPT ![w] =
            IF code = <<>>
            THEN [called EXCEPT !.failed_code = code, !.error_message = "Empty code from LLM.",
                                !.attempt = @ + 1, !.pc = "boundary"]
            ELSE IF me.attempt = 0 /\ original_question # <<>> /\ is_root_node
                 THEN [called EXCEPT !.pc = "gate"]
                 ELSE [called EXCEPT !.pc = "compile"]]
    /\ UNCHANGED <<aux_vars, planner_vars, pc, build_order, synth_vars, dep_chunks, stop_event,
                   consumed, success_code, winners, main_vars>>

\* answers of run_semantic_check as json.loads sees them: a dict with a consistency_level,
\* a dict without one ("missing"), or text that does not parse ("malformed")
SemanticReports == {"level_1", "level_2", "level_3", "level_x", "missing", "malformed"}

\* report.get("consistency_level", "level_3")
consistency_level_of(report) == IF report = "missing" THEN "level_3" ELSE report

\* a plausible slip of the gate: a level-3 verdict is logged and the worker goes on to compile
gate_outcome_no_abort(report) == "compile"

\* the semantic gate of the root node's first attempt: what the worker does next
gate_outcome(report) ==
    IF report = "malformed" THEN "compile"
    ELSE IF consistency_level_of(report) = "level_3" THEN "done"
    ELSE "compile"

\* step 2 of the root's first attempt: back-translate, judge, abort on level 3
WorkerGate(w, report) ==
    /\ PoolRunning
    /\ workers[w].pc = "gate"
    /\ workers' = [workers EXCEPT ![w].pc = gate_outcome(report),
                                  ![w].judged_level_3 = (report # "malformed"
                                                         /\ consistency_level_of(report) = "level_3")]
    /\ UNCHANGED <<aux_vars, planner_vars, pc, build_order, synth_vars, dep_chunks, stop_event,
                   consumed, success_code, winners, main_vars>>

\* step 3: compile_code returns success or failure
WorkerCompile(w, success) ==
    /\ PoolRunning
    /\ workers[w].pc = "compile"
    /\ LET me == [workers[w] EXCEPT !.compile_calls = @ + 1]
       IN IF success
          THEN /\ stop_event' = TRUE
               /\ workers' = [workers EXCEPT ![w] =
                     [me EXCEPT !.result = code_without_imports(me.current_code), !.pc = "done"]]
          ELSE /\ stop_event' = stop_event
               /\ workers' = [workers EXCEPT ![w] =
                     [me EXCEPT !.failed_code = me.current_code,
                                !.error_message = "compile error",
                                !.attempt = @ + 1, !.pc = "boundary"]]
    /\ UNCHANGED <<aux_vars, planner_vars, pc, build_order, synth_vars, dep_chunks,
                   consumed, success_code, winners, main_vars>>

----------------------------------------------------------------------------
(* Stage 2: GoTSynthesizer.run *)

\* run, before the loop: the build order, empty caches, the header piece
SynthStart ==
    /\ pc = "planned"
    /\ build_order' = get_build_order(nodes)
    /\ pos' = 1
    /\ synthesized_cache' = <<>>
    /\ grounded_set' = {}
    /\ final_code_pieces' = <<BASE_IMPORTS>>
    /\ pc' = "synth_loop"
    /\ UNCHANGED <<aux_vars, planner_vars, launched, pool_vars, main_vars>>

\* a plausible slip of the dispatch: every node of the build order is sent to the pool
node_branch_all_synthesize(status) == "synthesize"

\* `if node.status == NodeStatus.GROUNDED: ... elif node.status == NodeStatus.TO_SYNTHESIZE: ...`
node_branch(status) ==
    IF status = GROUNDED THEN "grounded"
    ELSE IF status = TO_SYNTHESIZE THEN "synthesize"
    ELSE "skip"

\* one iteration of `for node in build_order` up to the launch of the pool
SynthNode ==
    /\ pc = "synth_loop"
    /\ pos <= Len(build_order)
    /\ LET node == nodes[CurNode]
           node_name_clean == Strip(node.name)
           node_key == NameKey(node.name)
           collected == collect_transitive_synthesized_code(nodes, CurNode, synthesized_cache, grounded_set)
       IN IF node_branch(node.status) = "grounded" THEN
               /\ IF node.grounded_definition = PyStr("VerifiedKB")
                  THEN LET st == recursively_paste_from_kb(node_key,
                                    [pieces |-> final_code_pieces, cache |-> synthesized_cache,
                                     gset |-> grounded_set])
                       IN /\ final_code_pieces' = st.pieces
                          /\ synthesized_cache' = st.cache
                          /\ grounded_set' = st.gset
                  ELSE /\ grounded_set' = grounded_set \cup {normalize_node_name(node_name_clean)}
                       /\ UNCHANGED <<final_code_pieces, synthesized_cache>>
               /\ pos' = pos + 1
               /\ UNCHANGED <<pc, launched, pool_vars>>
          ELSE IF node_branch(node.status) = "synthesize" /\ collected.missing # {} THEN
               /\ pos' = pos + 1
               /\ UNCHANGED <<pc, synthesized_cache, grounded_set, final_code_pieces, launched, pool_vars>>
          ELSE IF node_branch(node.status) = "synthesize" THEN
               /\ dep_chunks' = collected.chunks
               /\ stop_event' = FALSE
               /\ success_code' = NoCode
               /\ workers' = [w \in WorkerIds |-> NewWorker]
               /\ consumed' = {}
               /\ winners' = {}
               /\ launched' = launched \cup {CurNode}
               /\ pc' = "pool"
               /\ UNCHANGED <<pos, synthesized_cache, grounded_set, final_code_pieces>>
          ELSE /\ pos' = pos + 1
               /\ UNCHANGED <<pc, synthesized_cache, grounded_set, final_code_pieces, launched, pool_vars>>
    /\ UNCHANGED <<aux_vars, planner_vars, build_order, main_vars>>

\* a plausible slip of the collection loop: it keeps reading results after a success
breaks_never(result) == FALSE

\* `if result: success_code = result; break`: does the as_completed loop stop at this result
breaks_on(result) == Truthy(result)

\* one iteration of `for future in as_completed(futures)` on a finished, not yet yielded future
SchedulerTake(w) ==
    /\ pc = "pool"
    /\ w \notin consumed
    /\ workers[w].pc = "done"
    /\ LET result == workers[w].result
       IN /\ consumed' = consumed \cup {w}
          /\ IF Truthy(result)
             THEN success_code' = result /\ winners' = winners \cup {w}
             ELSE UNCHANGED <<success_code, winners>>
          /\ pc' = IF breaks_on(result) \/ consumed \cup {w} = WorkerIds THEN "pool_exit" ELSE "pool"
    /\ UNCHANGED <<aux_vars, planner_vars, build_order, synth_vars, dep_chunks, stop_event, workers, main_vars>>

\* a plausible slip of the pool: the executor is shut down without waiting (wait=False)
executor_exit_no_wait(ws) == TRUE

\* leaving `with ThreadPoolExecutor(...) as executor` calls shutdown(wait=True), which
\* returns once every submitted worker has returned
executor_exit(ws) == \A w \in WorkerIds : ws[w].pc = "done"

\* the `with` block is left once every worker has returned (shutdown(wait=True)); then the
\* node is admitted, or the run returns its document with the failure marker; the pool's
\* locals (threads, futures, stop_event, success_code) are dropped
PoolExit ==
    /\ pc = "pool_exit"
    /\ executor_exit(workers)
    /\ LET node_name_clean == Strip(nodes[CurNode].name)
       IN IF Truthy(success_code)
          THEN /\ final_code_pieces' = Append(final_code_pieces,
                                              <<Line("sep", node_name_clean)>> \o success_code)
               /\ synthesized_cache' =
                     (normalize_node_name(node_name_clean) :> success_code) @@ synthesized_cache
               /\ pos' = pos + 1
               /\ pc' = "synth_loop"
               /\ UNCHANGED final_lean_code
          ELSE /\ final_code_pieces' = Append(final_code_pieces, <<Line("fatal", node_name_clean)>>)
               /\ final_lean_code' = build_final_code_string(final_code_pieces')
               /\ pc' = "synth_done"
               /\ UNCHANGED <<synthesized_cache, pos>>
    /\ dep_chunks' = <<>>
    /\ stop_event' = FALSE
    /\ workers' = <<>>
    /\ consumed' = {}
    /\ winners' = {}
    /\ success_code' = NoCode
    /\ UNCHANGED <<aux_vars, planner_vars, build_order, grounded_set, launched,
                   result_summary, save_calls, kb_file, kb_loaded, kb_vars>>

\* the loop over build_order is exhausted: run returns the document
SynthReturn ==
    /\ pc = "synth_loop"
    /\ pos > Len(build_order)
    /\ final_lean_code' = build_final_code_string(final_code_pieces)
    /\ pc' = "synth_done"
    /\ UNCHANGED <<aux_vars, planner_vars, build_order, synth_vars, pool_vars,
                   result_summary, save_calls, kb_file, kb_loaded, kb_vars>>

----------------------------------------------------------------------------
(* modules/knowledge_base.py *)

\* a knowledge-base entry {"code": ..., "deps": [...]} (a JSON object)
KBEntry(code, deps) == [type |-> "dict", code |-> code, deps |-> deps]

\* an item of the old format, key |-> code text (a JSON string, no dependency list)
KBLegacy(code) == [type |-> "str", code |-> code, deps |-> <<>>]

\* a file holding a JSON object: key |-> value
KBDict(entries) == [type |-> "dict", entries |-> entries]

\* load_knowledge_base: {} for a missing, unparsable or non-dict file; else the dict-valued items
load_knowledge_base(file) ==
    IF file.type = "absent" THEN <<>>
    ELSE IF file.type # "dict" THEN <<>>
    ELSE LET valid == {k \in DOMAIN file.entries : file.entries[k].type = "dict"}
         IN [k \in valid |-> file.entries[k]]

\* the deps list save computes for a node
dep_keys(g, n) == [i \in 1..Len(g.nodes[n].dependencies) |-> NameKey(g.nodes[g.nodes[n].dependencies[i]].name)]

\* `if node_key == root_key`, root_key = graph.root.name.lower().strip()
is_root_key(node_key, g) == node_key = NameKey(g.nodes[1].name)

\* a plausible slip of the entry: the dependency keys in sorted-set form, order and graph lost
kb_entry_no_deps(cache, g, node_key) == KBEntry(cache[node_key], <<>>)

\* the entry save builds for an admitted key
kb_entry_for(cache, g, node_key) ==
    KBEntry(cache[node_key], dep_keys(g, find_node_by_name(g, node_key)))

\* the keys of the cache that save writes: not the root key, and found in the graph
admitted_keys(cache, g) ==
    {k \in DOMAIN cache : ~is_root_key(k, g) /\ find_node_by_name(g, k) # 0}

\* a plausible slip of the merge: the file is written from the entries of this call alone
merge_verified_nodes_replace(existing_kb, cache, g) ==
    [k \in admitted_keys(cache, g) |-> kb_entry_for(cache, g, k)]

\* the loop of save_verified_nodes: existing_kb after the entries of the cache were put in
merge_verified_nodes(existing_kb, cache, g) ==
    [k \in (DOMAIN existing_kb) \cup admitted_keys(cache, g) |->
        IF k \in admitted_keys(cache, g) THEN kb_entry_for(cache, g, k) ELSE existing_kb[k]]

\* save_verified_nodes: the contents of the file after the write
save_verified_nodes(cache, g, file) ==
    KBDict(merge_verified_nodes(load_knowledge_base(file), cache, g))

----------------------------------------------------------------------------
(* main.py, stage3_alignment.py *)

\* process_single_problem after synthesizer.run: the truncation check
MainAfterSynthesis ==
    /\ pc = "synth_done"
    /\ IF ContainsFatal(final_lean_code)
       THEN /\ result_summary' = [result_summary EXCEPT !.generated_code = final_lean_code,
                                                       !.error = "Stage 2 Synthesis Failed",
                                                       !.compilation_passed = FALSE]
            /\ pc' = "done"
       ELSE /\ result_summary' = [result_summary EXCEPT !.generated_code = final_lean_code,
                                                       !.compilation_passed = TRUE]
            /\ pc' = "align"
    /\ UNCHANGED <<aux_vars, planner_vars, build_order, synth_vars, pool_vars,
                   final_lean_code, save_calls, kb_file, kb_loaded, kb_vars>>

\* SemanticAlignmentModule.run, the loop over the build order: a node whose normalised name
\* is a key of the cache is back-translated, with the segments of those of its direct
\* dependencies whose key is already in back_translated_segments as context;
\* st = [segments (the keys of back_translated_segments), calls (node and context, in order)]
RECURSIVE back_translate_from(_, _, _, _, _)
back_translate_from(ns, order, i, cache, st) ==
    IF i > Len(order) THEN st
    ELSE LET node == order[i]
             node_key == normalize_node_name(ns[node].name)
             dep_nl_context ==
                 SelectSeq(ns[node].dependencies,
                           LAMBDA dep : normalize_node_name(ns[dep].name) \in st.segments)
         IN IF node_key \in DOMAIN cache
            THEN back_translate_from(ns, order, i + 1, cache,
                    [segments |-> st.segments \cup {node_key},
                     calls |-> Append(st.calls, [node |-> node, nl_context |-> dep_nl_context])])
            ELSE back_translate_from(ns, order, i + 1, cache, st)

back_translation(ns, cache) ==
    back_translate_from(ns, get_build_order(ns), 1, cache, [segments |-> {}, calls |-> <<>>])

\* SemanticAlignmentModule.run: the keys of back_translated_segments
back_translated_keys(ns, cache) == back_translation(ns, cache).segments

\* a plausible slip of the acceptance test: every parsed verdict is accepted
is_consistent_any(level) == TRUE

\* is_consistent = (consistency_level == "level_1" or consistency_level == "level_2")
is_consistent_level(level) == level \in {"level_1", "level_2"}

\* SemanticAlignmentModule.run: [is_consistent, consistency_level of the returned report, saved]
alignment_run(ns, cache, report) ==
    IF back_translated_keys(ns, cache) = {}
    THEN [is_consistent |-> FALSE, level |-> "level_3", saved |-> FALSE]
    ELSE IF report = "malformed"
    THEN [is_consistent |-> FALSE, level |-> "level_3", saved |-> FALSE]
    ELSE [is_consistent |-> is_consistent_level(consistency_level_of(report)),
          level |-> consistency_level_of(report),
          saved |-> is_consistent_level(consistency_level_of(report))]

\* a plausible slip of the record: one flag derived from the other
summary_after_alignment_coupled(summary, r) ==
    [summary EXCEPT
        !.consistency_level = r.level,
        !.status = IF r.is_consistent THEN "success" ELSE "inconsistent",
        !.semantic_passed = r.is_consistent,
        !.compilation_passed = r.is_consistent]

\* process_single_problem: the record after aligner.run returned r
summary_after_alignment(summary, r) ==
    [summary EXCEPT
        !.consistency_level = r.level,
        !.status = IF r.is_consistent THEN "success" ELSE "inconsistent",
        !.semantic_passed = r.is_consistent]

\* process_single_problem: aligner.run (which saves on acceptance) and the record's flags
MainAlignment(report) ==
    /\ pc = "align"
    /\ LET r == alignment_run(nodes, synthesized_cache, report)
       IN /\ IF r.saved
             THEN /\ kb_file' = save_verified_nodes(synthesized_cache, Graph(nodes, nodes_by_name), kb_file)
                  /\ save_calls' = save_calls + 1
             ELSE UNCHANGED <<kb_file, save_calls>>
          /\ result_summary' = summary_after_alignment(result_summary, r)
    /\ pc' = "done"
    /\ UNCHANGED <<aux_vars, planner_vars, build_order, synth_vars, pool_vars, final_lean_code, kb_loaded, kb_vars>>

\* a caller reads the knowledge base after the run
LoadKnowledgeBase ==
    /\ pc = "done"
    /\ kb_loaded' = load_knowledge_base(kb_file)
    /\ pc' = "loaded"
    /\ UNCHANGED <<aux_vars, planner_vars, build_order, synth_vars, pool_vars,
                   final_lean_code, result_summary, save_calls, kb_file, kb_vars>>

----------------------------------------------------------------------------
(* Specification of one end-to-end run *)

Statements == {<<"b", " ", " ", "c">>}
ChildNames == {<<"a">>, <<"b", " ", "c">>}
Expansions == {<<>>, <<<<"a">>>>, <<<<"b", " ", "c">>>>, <<<<"a">>, <<"b", " ", "c">>>>}

\* grounding answers of the text channel in the end-to-end run
RunTextResults == {GroundingResult(FALSE, {}), GroundingResult(TRUE, {"D1"})}

\* answers of the generation and repair calls: nothing, an import and a `def` line, and a
\* declaration whose line starts with none of the code_like keywords (noncomputable def,
\* abbrev, instance, ...)
CodeX == <<Line("import", "M"), Line("code", "x")>>
CodeY == <<Line("decl", "y")>>
Codes == {<<>>, CodeX, CodeY}

\* a knowledge base left by earlier runs
PriorKB ==
    KBDict((<<"a">> :> KBEntry(<<Line("code", "old")>>, <<<<"q">>>>))
           @@ (<<"q">> :> KBEntry(<<Line("code", "q")>>, <<>>)))

Init ==
    /\ InitGraph(Statements)
    /\ image_path = FALSE
    /\ kb_file \in {KBAbsent, PriorKB}

Next ==
    \/ \E deps \in Expansions : PlannerExpandRoot(deps)
    \/ \E rt \in RunTextResults, deps \in Expansions :
          PlannerProcessNode(rt, GroundingResult(FALSE, {}), deps)
    \/ PlannerReturn
    \/ SynthStart
    \/ SynthNode
    \/ \E w \in WorkerIds : WorkerBoundary(w)
    \/ \E w \in WorkerIds, code \in Codes : WorkerGenerate(w, code)
    \/ \E w \in WorkerIds, report \in SemanticReports : WorkerGate(w, report)
    \/ \E w \in WorkerIds, success \in BOOLEAN : WorkerCompile(w, success)
    \/ \E w \in WorkerIds : SchedulerTake(w)
    \/ PoolExit
    \/ SynthReturn
    \/ MainAfterSynthesis
    \/ \E report \in SemanticReports : MainAlignment(report)
    \/ LoadKnowledgeBase

Spec == Init /\ [][Next]_vars

-----------------------------------------------------------------------------
(* Specification of a run on a statement whose concepts differ only in spacing *)

AlignStatements == {<<"b", " ", " ", "c">>}
AlignExpansions ==
    {<<>>,
     <<<<"p", " ", "q">>, <<"b", " ", "c">>>>,
     <<<<"b", " ", " ", "c">>, <<"p", " ", " ", "q">>>>}
\* a candidate that is nothing but an import line
CodeI == <<Line("import", "M")>>
AlignCodes == {CodeX, CodeI}

InitAlign ==
    /\ InitGraph(AlignStatements)
    /\ image_path = FALSE
    /\ kb_file = KBAbsent

NextAlign ==
    \/ \E deps \in AlignExpansions : PlannerExpandRoot(deps)
    \/ \E rt \in RunTextResults, deps \in AlignExpansions :
          PlannerProcessNode(rt, GroundingResult(FALSE, {}), deps)
    \/ PlannerReturn
    \/ SynthStart
    \/ SynthNode
    \/ \E w \in WorkerIds : WorkerBoundary(w)
    \/ \E w \in WorkerIds, code \in AlignCodes : WorkerGenerate(w, code)
    \/ \E w \in WorkerIds, report \in SemanticReports : WorkerGate(w, report)
    \/ \E w \in WorkerIds, success \in BOOLEAN : WorkerCompile(w, success)
    \/ \E w \in WorkerIds : SchedulerTake(w)
    \/ PoolExit
    \/ SynthReturn
    \/ MainAfterSynthesis
    \/ \E report \in SemanticReports : MainAlignment(report)
    \/ LoadKnowledgeBase

SpecAlign == InitAlign /\ [][NextAlign]_vars

----------------------------------------------------------------------------
(* Specification of the graph interface: add_node called directly by a client *)

\* most nodes a directly built graph holds
MaxNodes == 4

GraphNames == {<<"a">>, <<"A", " ">>, <<"b">>, <<"s">>}

\* a client calls graph.add_node(name, parent) with any name and any node of the graph
CallAddNode(name, parent) ==
    /\ pc = "plan_root"
    /\ Len(nodes) < MaxNodes
    /\ parent \in 1..Len(nodes)
    /\ LET g == add_node(Graph(nodes, nodes_by_name), name, parent)
       IN nodes' = g.nodes /\ nodes_by_name' = g.nodes_by_name
    /\ UNCHANGED <<aux_vars, image_path, queue, queue_log, last_expansion, pc, build_order,
                   synth_vars, pool_vars, main_vars>>

NextGraph == \E name \in GraphNames, parent \in 1..MaxNodes : CallAddNode(name, parent)

SpecGraph == InitPlan /\ [][NextGraph]_vars

----------------------------------------------------------------------------
(* Specification of the knowledge base under concurrent callers *)

\* number of threads that call into the knowledge base, and calls they make in total
NumThreads == 2
MaxCalls == 3

KBThreads == 1..NumThreads

\* the graph the callers pass to save: S -> a -> b
KBGraph == add_node(add_node(ConceptualGraph(<<"S">>), <<"a">>, 1), <<"b">>, 2)

\* the run caches the callers pass to save
KBCaches ==
    { (<<"a">> :> CodeY), (<<"b">> :> CodeX), (<<"a">> :> CodeX) @@ (<<"s">> :> CodeY) }

\* calls made so far by the threads 1..t
RECURSIVE CallsMade(_)
CallsMade(t) == IF t = 0 THEN 0 ELSE kb_threads[t].calls + CallsMade(t - 1)

\* a thread outside the module
IdleThread ==
    [pc |-> "idle", op |-> "none", cache |-> <<>>, existing_kb |-> <<>>,
     result |-> <<>>, calls |-> 0, saved |-> {}]

\* a plausible slip of the lock: the module works without one
lock_acquirable_always(lock, t) == TRUE

\* a plausible slip of the lock: a plain threading.Lock, which its holder cannot take again
lock_acquirable_plain(lock, t) == lock.owner = 0

\* threading.RLock: free, or already held by the calling thread
lock_acquirable(lock, t) == lock.owner \in {0, t}

\* RLock.acquire by t, and RLock.release by t
lock_acquire(lock, t) ==
    [owner |-> t, depth |-> IF lock.owner = t THEN lock.depth + 1 ELSE 1]
lock_release(lock, t) ==
    IF lock.owner # t THEN lock
    ELSE IF lock.depth <= 1 THEN [owner |-> 0, depth |-> 0]
    ELSE [owner |-> t, depth |-> lock.depth - 1]

\* a thread calls save_verified_nodes(cache, graph) or load_knowledge_base()
KBCall(t, op, cache) ==
    /\ pc = "kb"
    /\ kb_threads[t].pc = "idle"
    /\ CallsMade(NumThreads) < MaxCalls
    /\ kb_threads' = [kb_threads EXCEPT ![t].pc = "enter", ![t].op = op,
                                        ![t].cache = IF op = "save" THEN cache ELSE <<>>,
                                        ![t].calls = @ + 1]
    /\ UNCHANGED <<aux_vars, planner_vars, pc, build_order, synth_vars, pool_vars,
                   final_lean_code, result_summary, save_calls, kb_file, kb_loaded, kb_lock>>

\* `with _lock:` at the head of save_verified_nodes and of load_knowledge_base
KBEnter(t) ==
    /\ pc = "kb"
    /\ kb_threads[t].pc = "enter"
    /\ lock_acquirable(kb_lock, t)
    /\ kb_lock' = lock_acquire(kb_lock, t)
    /\ kb_threads' = [kb_threads EXCEPT ![t].pc = IF kb_threads[t].op = "save" THEN "save_load" ELSE "read"]
    /\ UNCHANGED <<aux_vars, planner_vars, pc, build_order, synth_vars, pool_vars,
                   final_lean_code, result_summary, save_calls, kb_file, kb_loaded>>

\* save: `existing_kb = load_knowledge_base()` enters load, whose `with _lock:` takes the
\* lock again while the calling thread already holds it
KBSaveLoad(t) ==
    /\ pc = "kb"
    /\ kb_threads[t].pc = "save_load"
    /\ lock_acquirable(kb_lock, t)
    /\ kb_lock' = lock_acquire(kb_lock, t)
    /\ kb_threads' = [kb_threads EXCEPT ![t].pc = "save_read"]
    /\ UNCHANGED <<aux_vars, planner_vars, pc, build_order, synth_vars, pool_vars,
                   final_lean_code, result_summary, save_calls, kb_file, kb_loaded>>

\* save: the inner load reads the file, leaves its `with _lock:` block and returns existing_kb
KBSaveRead(t) ==
    /\ pc = "kb"
    /\ kb_threads[t].pc = "save_read"
    /\ kb_lock' = lock_release(kb_lock, t)
    /\ kb_threads' = [kb_threads EXCEPT ![t].existing_kb = load_knowledge_base(kb_file),
                                        ![t].pc = "save_write"]
    /\ UNCHANGED <<aux_vars, planner_vars, pc, build_order, synth_vars, pool_vars,
                   final_lean_code, result_summary, save_calls, kb_file, kb_loaded>>

\* save: the merge loop and the write of the file
KBSaveWrite(t) ==
    /\ pc = "kb"
    /\ kb_threads[t].pc = "save_write"
    /\ LET g == Graph(nodes, nodes_by_name)
       IN /\ kb_file' = KBDict(merge_verified_nodes(kb_threads[t].existing_kb, kb_threads[t].cache, g))
          /\ kb_threads' = [kb_threads EXCEPT ![t].saved = @ \cup admitted_keys(kb_threads[t].cache, g),
                                              ![t].pc = "exit"]
    /\ save_calls' = save_calls + 1
    /\ UNCHANGED <<aux_vars, planner_vars, pc, build_order, synth_vars, pool_vars,
                   final_lean_code, result_summary, kb_loaded, kb_lock>>

\* load: the read of the file
KBLoadRead(t) ==
    /\ pc = "kb"
    /\ kb_threads[t].pc = "read"
    /\ kb_threads' = [kb_threads EXCEPT ![t].result = load_knowledge_base(kb_file), ![t].pc = "exit"]
    /\ UNCHANGED <<aux_vars, planner_vars, pc, build_order, synth_vars, pool_vars,
                   final_lean_code, result_summary, save_calls, kb_file, kb_loaded, kb_lock>>

\* the end of the `with _lock:` block: the call returns
KBExit(t) ==
    /\ pc = "kb"
    /\ kb_threads[t].pc = "exit"
    /\ kb_lock' = lock_release(kb_lock, t)
    /\ kb_threads' = [kb_threads EXCEPT ![t].pc = "idle", ![t].op = "none", ![t].cache = <<>>,
                                        ![t].existing_kb = <<>>, ![t].result = <<>>]
    /\ UNCHANGED <<aux_vars, planner_vars, pc, build_order, synth_vars, pool_vars,
                   final_lean_code, result_summary, save_calls, kb_file, kb_loaded>>

\* the state in which threads start to call the module, the file being one of `files`
InitKBWith(files) ==
    /\ image_path = FALSE
    /\ nodes = KBGraph.nodes
    /\ nodes_by_name = KBGraph.nodes_by_name
    /\ queue = <<>>
    /\ queue_log = {}
    /\ last_expansion = NoExpansion
    /\ pc = "kb"
    /\ build_order = <<>>
    /\ pos = 0
    /\ synthesized_cache = <<>>
    /\ grounded_set = {}
    /\ final_code_pieces = <<>>
    /\ dep_chunks = <<>>
    /\ stop_event = FALSE
    /\ workers = <<>>
    /\ consumed = {}
    /\ success_code = NoCode
    /\ winners = {}
    /\ launched = {}
    /\ final_lean_code = NoDocument
    /\ result_summary = InitialSummary
    /\ save_calls = 0
    /\ kb_loaded = <<>>
    /\ kb_file \in files
    /\ kb_lock = [owner |-> 0, depth |-> 0]
    /\ kb_threads = [t \in KBThreads |-> IdleThread]
    /\ batch = NoBatch
    /\ search = NoSearch
    /\ compile_call = NoCompile

InitKB == InitKBWith({KBAbsent, PriorKB})

NextKB ==
    \/ \E t \in KBThreads, cache \in KBCaches : KBCall(t, "save", cache)
    \/ \E t \in KBThreads : KBCall(t, "load", <<>>)
    \/ \E t \in KBThreads : KBEnter(t)
    \/ \E t \in KBThreads : KBSaveLoad(t)
    \/ \E t \in KBThreads : KBSaveRead(t)
    \/ \E t \in KBThreads : KBSaveWrite(t)
    \/ \E t \in KBThreads : KBLoadRead(t)
    \/ \E t \in KBThreads : KBExit(t)

SpecKB == InitKB /\ [][NextKB]_vars

\* the threads are scheduled fairly: a thread that can take a step eventually takes it
\* (a thread is free never to make another call)
KBThreadStep(t) ==
    KBEnter(t) \/ KBSaveLoad(t) \/ KBSaveRead(t) \/ KBSaveWrite(t) \/ KBLoadRead(t) \/ KBExit(t)

SpecKBFair == SpecKB /\ \A t \in KBThreads : WF_vars(KBThreadStep(t))

----------------------------------------------------------------------------
(* Specification of the knowledge base when the process can crash inside save *)

\* the file after open(KB_FILE_PATH, "w") truncated it and json.dump wrote none or only a
\* part of the text: it exists and does not parse
KBPartial == [type |-> "partial"]

\* the process restarts: the lock is free again and no thread is inside the module; what
\* each caller had saved before is remembered
AfterCrash(threads) ==
    [t \in DOMAIN threads |-> [IdleThread EXCEPT !.calls = threads[t].calls, !.saved = threads[t].saved]]

\* the process dies while thread t is inside save, before line 78 opened the file for writing
KBCrashBeforeWrite(t) ==
    /\ pc = "kb"
    /\ kb_threads[t].pc \in {"save_load", "save_read", "save_write"}
    /\ kb_threads' = AfterCrash(kb_threads)
    /\ kb_lock' = [owner |-> 0, depth |-> 0]
    /\ UNCHANGED <<aux_vars, planner_vars, pc, build_order, synth_vars, pool_vars,
                   final_lean_code, result_summary, save_calls, kb_file, kb_loaded>>

\* the process dies while thread t is inside save, after line 78 opened (truncated) the file
\* and before json.dump and the close completed
KBCrashInWrite(t) ==
    /\ pc = "kb"
    /\ kb_threads[t].pc = "save_write"
    /\ kb_file' = KBPartial
    /\ kb_threads' = AfterCrash(kb_threads)
    /\ kb_lock' = [owner |-> 0, depth |-> 0]
    /\ UNCHANGED <<aux_vars, planner_vars, pc, build_order, synth_vars, pool_vars,
                   final_lean_code, result_summary, save_calls, kb_loaded>>

NextKBCrash ==
    \/ NextKB
    \/ \E t \in KBThreads : KBCrashBeforeWrite(t)
    \/ \E t \in KBThreads : KBCrashInWrite(t)

SpecKBCrash == InitKB /\ [][NextKBCrash]_vars

-----------------------------------------------------------------------------
(* Specification of the knowledge base over the states the file can be found in *)

\* a file of earlier runs that still holds an item of the old format
LegacyKB ==
    KBDict((<<"a">> :> KBEntry(<<Line("code", "old")>>, <<<<"q">>>>))
           @@ (<<"q">> :> KBEntry(<<Line("code", "q")>>, <<>>))
           @@ (<<"r">> :> KBLegacy(<<Line("code", "r")>>)))

KBFiles == {KBAbsent, PriorKB, LegacyKB, KBPartial}

SpecKBFiles == InitKBWith(KBFiles) /\ [][NextKB]_vars

-----------------------------------------------------------------------------
(* main.py: the batch loop over the tasks of the input file *)

MaxTasks == 2

\* the value of entry["question"]: a string, or JSON null
QuestionValues == {"str", "null"}
\* what the three stages do for one problem: they return (the final status), or one raises
StageResults == {"success", "inconsistent", "failed"}
StageFaults == {"planner raised", "synthesizer raised", "aligner raised"}

\* the tasks read from the input file: index i is the i-th line
BatchTasks ==
    UNION {[1..n -> QuestionValues] : n \in 0..MaxTasks}

\* save_individual_result: it returns (its IOError and the errors of the report write are
\* swallowed), or the write of the .lean file raises something that is not an IOError
\* (ValueError for a file name with a null byte, from the task's index)
SaveOutcomes == {"saved", "save raised"}

\* the `except Exception` handler of process_single_problem: status and error are
\* overwritten, the two flags stay as they are
handler(summary, e) == [summary EXCEPT !.status = "error", !.error = e]

\* process_single_problem: question[:80] is evaluated before the try block and raises
\* TypeError when the question is not a string; the stages run inside the try block, whose
\* handler records status "error" and str(e); save_individual_result is called inside the
\* try block, after the flags and the status are set
process_single_problem(idx, question, stages, save) ==
    LET summary0 == [index |-> idx, status |-> "failed", compilation_passed |-> FALSE,
                     semantic_passed |-> FALSE, error |-> "None"]
        compiled == [summary0 EXCEPT !.compilation_passed = TRUE]
        aligned == [compiled EXCEPT !.status = stages, !.semantic_passed = (stages = "success")]
        saved(summary) == IF save = "saved" THEN summary ELSE handler(summary, save)
    IN IF question # "str" THEN [raised |-> TRUE, res |-> <<>>]
       ELSE [raised |-> FALSE,
             res |-> IF stages \in {"planner raised", "synthesizer raised"} THEN handler(summary0, stages)
                     ELSE IF stages = "failed" THEN saved(summary0)
                     ELSE IF stages = "aligner raised" THEN handler(compiled, stages)
                     ELSE saved(aligned)]

\* main(): the tasks are read and summary.jsonl is opened
BatchStart(tasks) ==
    /\ pc = "plan_root"
    /\ batch.pc = "idle"
    /\ batch' = [NoBatch EXCEPT !.pc = "loop", !.tasks = tasks]
    /\ UNCHANGED <<planner_vars, pc, build_order, synth_vars, pool_vars, main_vars,
                   search, compile_call>>

\* one iteration of `for i, entry in enumerate(tasks)`: the record is written to
\* summary.jsonl; an exception process_single_problem lets through ends main()
BatchStep(stages, save) ==
    /\ batch.pc = "loop"
    /\ batch.i < Len(batch.tasks)
    /\ LET r == process_single_problem(batch.i + 1, batch.tasks[batch.i + 1], stages, save)
       IN batch' = IF r.raised
                   THEN [batch EXCEPT !.pc = "crashed"]
                   ELSE [batch EXCEPT
                            !.i = @ + 1,
                            !.compiled_count = IF r.res.compilation_passed THEN @ + 1 ELSE @,
                            !.semantic_count = IF r.res.semantic_passed THEN @ + 1 ELSE @,
                            !.summary = Append(@, r.res)]
    /\ UNCHANGED <<planner_vars, pc, build_order, synth_vars, pool_vars, main_vars,
                   search, compile_call>>

\* the loop is exhausted
BatchEnd ==
    /\ batch.pc = "loop"
    /\ batch.i = Len(batch.tasks)
    /\ batch' = [batch EXCEPT !.pc = "finished"]
    /\ UNCHANGED <<planner_vars, pc, build_order, synth_vars, pool_vars, main_vars,
                   search, compile_call>>

NextBatch ==
    \/ \E tasks \in BatchTasks : BatchStart(tasks)
    \/ \E stages \in StageResults \cup StageFaults, save \in SaveOutcomes : BatchStep(stages, save)
    \/ BatchEnd

SpecBatch == InitPlan /\ [][NextBatch]_vars

-----------------------------------------------------------------------------
(* modules/external_tools.py: LeanSearchClient._search_web *)

LEANSEARCH_MAX_RETRIES == 3

\* what one requests.post does: the response is parsed into a list of results, or the
\* request, raise_for_status or _parse_search_output raises
ParsedResults == {<<>>, <<"Nat.add">>, <<"Nat.add", "Nat.mul">>}
RequestFaults == {"ConnectionError", "HTTPError", "AttributeError"}
RequestOutcomes ==
    [ok : {TRUE}, parsed : ParsedResults, error : {"None"}]
        \cup [ok : {FALSE}, parsed : {<<>>}, error : RequestFaults]

attempt_range_one_more(max_retries) == 0..(max_retries + 1)

\* range(self.max_retries + 1)
attempt_range(max_retries) == 0..max_retries

\* _search_web is called: the loop variable is at the first value of the range
SearchCall ==
    /\ pc = "plan_root"
    /\ search.pc = "idle"
    /\ search' = [NoSearch EXCEPT !.pc = "loop"]
    /\ UNCHANGED <<planner_vars, pc, build_order, synth_vars, pool_vars, main_vars,
                   batch, compile_call>>

\* one iteration of the for loop: the request is made inside the try block; a parsed
\* response is returned, any exception is printed and followed by a sleep unless this was
\* the last attempt
SearchAttempt(outcome) ==
    /\ search.pc = "loop"
    /\ search.attempt \in attempt_range(LEANSEARCH_MAX_RETRIES)
    /\ search' = IF outcome.ok
                 THEN [search EXCEPT !.pc = "returned", !.requests = @ + 1,
                                     !.result = outcome.parsed]
                 ELSE [search EXCEPT !.requests = @ + 1,
                                     !.errors = Append(@, outcome.error),
                                     !.sleeps = IF search.attempt < LEANSEARCH_MAX_RETRIES
                                                THEN @ + 1 ELSE @,
                                     !.attempt = @ + 1]
    /\ UNCHANGED <<planner_vars, pc, build_order, synth_vars, pool_vars, main_vars,
                   batch, compile_call>>

\* the range is exhausted: return []
SearchExhausted ==
    /\ search.pc = "loop"
    /\ search.attempt \notin attempt_range(LEANSEARCH_MAX_RETRIES)
    /\ search' = [search EXCEPT !.pc = "returned", !.result = <<>>]
    /\ UNCHANGED <<planner_vars, pc, build_order, synth_vars, pool_vars, main_vars,
                   batch, compile_call>>

NextSearch ==
    \/ SearchCall
    \/ \E outcome \in RequestOutcomes : SearchAttempt(outcome)
    \/ SearchExhausted

SpecSearch == InitPlan /\ [][NextSearch]_vars

-----------------------------------------------------------------------------
(* modules/external_tools.py: LeanCompilerClient.compile_code *)

\* the request ids compile_code is called with: those of the workers, and none
RequestIds == {request_id(w) : w \in WorkerIds} \cup {""}

\* what open(temp_file_path, "w") and f.write do: the file is written; open raises and
\* no file is created; the file is created and the write raises
WriteOutcomes == {"written", "open raised", "write raised"}

\* what subprocess.run does, and the exit path and status compile_code takes for it
RunOutcomes == {"returncode 0", "returncode nonzero", "FileNotFoundError",
                "TimeoutExpired", "Exception"}
exit_path_of(outcome) ==
    CASE outcome = "returncode 0" -> "success"
      [] outcome = "returncode nonzero" -> "compile failure"
      [] outcome = "FileNotFoundError" -> "missing executable"
      [] outcome = "TimeoutExpired" -> "timeout"
      [] OTHER -> "other exception"
status_of(path) == IF path = "success" THEN "success" ELSE "failure"

finally_cleanup_skipped(file_exists, remove_ok) == file_exists

\* the finally block: `if os.path.exists(temp_file_path): try: os.remove(...) except
\* OSError: pass`; the value is whether the file exists afterwards
finally_cleanup(file_exists, remove_ok) == file_exists /\ ~remove_ok

\* compile_code is called: the file name is fixed; src/ may or may not exist, and a file of
\* that name may have been left behind earlier
CompileCall(rid, dir_exists, stale) ==
    /\ pc = "plan_root"
    /\ compile_call.pc = "idle"
    /\ compile_call' = [NoCompile EXCEPT !.pc = "makedirs", !.fname = temp_file_name(rid),
                                         !.dir_exists = dir_exists,
                                         !.file_exists = dir_exists /\ stale]
    /\ UNCHANGED <<planner_vars, pc, build_order, synth_vars, pool_vars, main_vars,
                   batch, search>>

\* `if not os.path.exists(self.src_dir): os.makedirs(...)`, with the early return when
\* makedirs raises OSError
CompileMakeDirs(ok) ==
    /\ compile_call.pc = "makedirs"
    /\ compile_call' =
          IF compile_call.dir_exists THEN [compile_call EXCEPT !.pc = "write"]
          ELSE IF ok THEN [compile_call EXCEPT !.pc = "write", !.dir_exists = TRUE]
          ELSE [compile_call EXCEPT !.pc = "finally", !.exit_path = "makedirs failed",
                                    !.status = "failure"]
    /\ UNCHANGED <<planner_vars, pc, build_order, synth_vars, pool_vars, main_vars,
                   batch, search>>

\* `with open(temp_file_path, "w") as f: f.write(full_lean_code)`; an exception goes to
\* the handlers of the try block
CompileWrite(outcome) ==
    /\ compile_call.pc = "write"
    /\ compile_call' =
          IF outcome = "written"
          THEN [compile_call EXCEPT !.pc = "run", !.file_exists = TRUE, !.written = TRUE]
          ELSE [compile_call EXCEPT !.pc = "finally", !.exit_path = "other exception",
                                    !.status = "failure",
                                    !.file_exists = @ \/ outcome = "write raised",
                                    !.written = outcome = "write raised"]
    /\ UNCHANGED <<planner_vars, pc, build_order, synth_vars, pool_vars, main_vars,
                   batch, search>>

\* subprocess.run and the analysis of its result, or the handler of what it raised
CompileRun(outcome) ==
    /\ compile_call.pc = "run"
    /\ compile_call' = [compile_call EXCEPT !.pc = "finally",
                                            !.exit_path = exit_path_of(outcome),
                                            !.status = status_of(exit_path_of(outcome))]
    /\ UNCHANGED <<planner_vars, pc, build_order, synth_vars, pool_vars, main_vars,
                   batch, search>>

\* the finally block runs on every way out of the try block, then the call returns
CompileFinally(remove_ok) ==
    /\ compile_call.pc = "finally"
    /\ compile_call' = [compile_call EXCEPT
                           !.pc = "returned",
                           !.file_exists = finally_cleanup(compile_call.file_exists, remove_ok),
                           !.remove_failed = compile_call.file_exists /\ ~remove_ok]
    /\ UNCHANGED <<planner_vars, pc, build_order, synth_vars, pool_vars, main_vars,
                   batch, search>>

NextCompile ==
    \/ \E rid \in RequestIds, dir_exists \in BOOLEAN, stale \in BOOLEAN :
          CompileCall(rid, dir_exists, stale)
    \/ \E ok \in BOOLEAN : CompileMakeDirs(ok)
    \/ \E outcome \in WriteOutcomes : CompileWrite(outcome)
    \/ \E outcome \in RunOutcomes : CompileRun(outcome)
    \/ \E remove_ok \in BOOLEAN : CompileFinally(remove_ok)

SpecCompile == InitPlan /\ [][NextCompile]_vars

----------------------------------------------------------------------------
(* Properties *)

Accepting == {"level_1", "level_2"}
NodeIds == 1..Len(nodes)
HasFatalFor(doc, name) ==
    \E b \in 1..Len(doc.blocks) : \E i \in 1..Len(doc.blocks[b]) : doc.blocks[b][i] = Line("fatal", name)
RunEnded == pc \in {"synth_done", "done", "loaded"}

\* C1: in the build order of every graph a decomposition run produced, each node comes
\* strictly after every node of its own dependency list
C1_DependencyBeforeDependent ==
    pc = "ordered" =>
        \A i \in 1..Len(build_order) :
            \A k \in 1..Len(nodes[build_order[i]].dependencies) :
                \E j \in 1..(i - 1) : build_order[j] = nodes[build_order[i]].dependencies[k]

\* C2: in one node's pool the result of at most one worker is assigned to success_code, and
\* when the node is admitted exactly that worker's result enters the cache and the document
C2_OneResultAdmitted ==
    [][/\ Cardinality(winners') <= 1
       /\ (pc = "pool_exit" /\ pc' = "synth_loop") =>
             \E w \in WorkerIds :
                /\ winners = {w}
                /\ synthesized_cache' =
                      (normalize_node_name(nodes[CurNode].name) :> workers[w].result) @@ synthesized_cache
                /\ final_code_pieces' =
                      Append(final_code_pieces, <<Line("sep", nodes[CurNode].name)>> \o workers[w].result)]_vars

\* C2 witness: two workers of one pool both hold an accepted compile, one result was taken
C2_Witness ==
    /\ pc = "pool_exit"
    /\ \E w1, w2 \in WorkerIds :
          /\ w1 # w2
          /\ Truthy(workers[w1].result) /\ Truthy(workers[w2].result)
          /\ workers[w1].result # workers[w2].result
          /\ winners = {w1}
          /\ success_code = workers[w1].result

\* C3: at every point of a decomposition run no two distinct nodes have the same
\* normalised (lower-cased, trimmed) name
C3_UniqueNormalizedNames ==
    \A i, j \in NodeIds : i # j => NameKey(nodes[i].name) # NameKey(nodes[j].name)

\* C3 witness: a node first named "A" is shared by two referencing nodes after the run
C3_Witness ==
    /\ pc = "planned"
    /\ \E n, p1, p2 \in NodeIds :
          /\ nodes[n].name = <<"A">>
          /\ p1 # p2
          /\ InSeq(n, nodes[p1].dependencies) /\ InSeq(n, nodes[p2].dependencies)

\* C4: a worker whose first-attempt candidate for the root was judged level 3 has returned
\* without a result, having made no compile call and no generation call beyond the first
C4_FailFastNoCompile ==
    \A w \in DOMAIN workers :
        workers[w].judged_level_3 =>
            /\ workers[w].pc = "done"
            /\ workers[w].result = NoCode
            /\ workers[w].compile_calls = 0
            /\ workers[w].gen_calls = 1

\* C4 witness: on the root, one worker was fast-aborted while the pool is still running
C4_Witness ==
    /\ pc = "pool"
    /\ CurNode = 1
    /\ \E w, v \in WorkerIds :
          /\ workers[w].judged_level_3
          /\ workers[w].pc = "done"
          /\ workers[v].compile_calls > 0

\* C5: after a save the persisted store has no entry keyed by the normalised name of the
\* root (neither its index key nor its run-cache key)
C5_RootNeverPersisted ==
    (save_calls > 0 /\ kb_file.type = "dict") =>
        /\ NameKey(nodes[1].name) \notin DOMAIN kb_file.entries
        /\ normalize_node_name(nodes[1].name) \notin DOMAIN kb_file.entries

\* C6: alignment calls save exactly when the judgment is level 1 or level 2; otherwise, and
\* in every other step of the run, the persisted store is left as it was
C6_SaveIffAccepted ==
    [][/\ pc = "align" =>
             /\ (save_calls' = save_calls + 1) <=> (result_summary'.consistency_level \in Accepting)
             /\ (save_calls' = save_calls) <=> (result_summary'.consistency_level \notin Accepting)
             /\ (result_summary'.consistency_level \notin Accepting) => kb_file' = kb_file
       /\ pc # "align" => (save_calls' = save_calls /\ kb_file' = kb_file)]_vars

\* C6 witness: a rejected run whose cache held a node that a save would have admitted
C6_Witness ==
    /\ pc = "done"
    /\ result_summary.consistency_level = "level_3"
    /\ save_calls = 0
    /\ \E k \in DOMAIN synthesized_cache :
          ~is_root_key(k, Graph(nodes, nodes_by_name)) /\ find_node_by_name(Graph(nodes, nodes_by_name), k) # 0

\* C7: when a pool ends with no accepted artifact the run returns at that node with the
\* failure marker naming it; afterwards no node is synthesized, and the record has
\* compilation_passed = FALSE with alignment and save never run
C7_FailureHaltsRun ==
    /\ [][(pc = "pool_exit" /\ pc' # "pool_exit" /\ ~Truthy(success_code)) =>
             /\ pc' = "synth_done"
             /\ HasFatalFor(final_lean_code', nodes[CurNode].name)
             /\ pos' = pos /\ synthesized_cache' = synthesized_cache]_vars
    /\ [][RunEnded => (launched' = launched /\ synthesized_cache' = synthesized_cache
                       /\ final_lean_code' = final_lean_code)]_vars
    /\ []((pc \in {"done", "loaded"} /\ pos <= Len(build_order)) =>
             /\ HasFatalFor(result_summary.generated_code, nodes[CurNode].name)
             /\ result_summary.compilation_passed = FALSE
             /\ result_summary.semantic_passed = FALSE
             /\ result_summary.status = "failed"
             /\ result_summary.consistency_level = "N/A"
             /\ save_calls = 0)

\* C7 witness: a run that failed at a node while a later node of the build order was pending
C7_Witness ==
    /\ pc = "done"
    /\ pos < Len(build_order)
    /\ CurNode \in launched
    /\ nodes[build_order[pos + 1]].status = TO_SYNTHESIZE
    /\ build_order[pos + 1] \notin launched
    /\ result_summary.compilation_passed = FALSE

C9_RejectedKeepsArtifact ==
    [][(pc = "align" /\ result_summary'.consistency_level \notin Accepting) =>
          /\ result_summary'.compilation_passed = TRUE
          /\ result_summary'.semantic_passed = FALSE
          /\ result_summary'.status = "inconsistent"
          /\ result_summary'.generated_code = build_final_code_string(final_code_pieces)
          /\ ~ContainsFatal(result_summary'.generated_code)]_vars

\* C9 witness: a compiled, rejected run whose record holds a document with synthesized blocks
C9_Witness ==
    /\ pc = "done"
    /\ result_summary.status = "inconsistent"
    /\ result_summary.compilation_passed /\ ~result_summary.semantic_passed
    /\ Len(result_summary.generated_code.blocks) >= 3

\* C10: within a run an artifact stored under a key of the SynthesizedCache is never
\* replaced by a later step
C10_CacheWriteOnce ==
    [][\A k \in DOMAIN synthesized_cache :
          k \in DOMAIN synthesized_cache' /\ synthesized_cache'[k] = synthesized_cache[k]]_vars

\* C11: once stop_event is set, a worker that reaches an attempt boundary returns without a
\* result and without any further generation, repair, gate or compile call; a worker that
\* has returned makes no call at all
C11_NoNewAttemptAfterStop ==
    [][\A w \in DOMAIN workers :
          (w \in DOMAIN workers' /\ workers'[w] # workers[w]) =>
             /\ (stop_event /\ workers[w].pc = "boundary") =>
                   /\ workers'[w].pc = "done"
                   /\ workers'[w].result = NoCode
                   /\ workers'[w].gen_calls = workers[w].gen_calls
                   /\ workers'[w].compile_calls = workers[w].compile_calls
             /\ workers[w].pc # "done"]_vars

\* C11 witness: a worker whose in-flight attempt failed after another worker's accepted
\* compile found the flag set at its next boundary and returned with attempts left
C11_Witness ==
    /\ PoolRunning
    /\ stop_event
    /\ \E w, v \in DOMAIN workers :
          /\ w # v
          /\ Truthy(workers[w].result)
          /\ workers[v].pc = "done"
          /\ workers[v].result = NoCode
          /\ ~workers[v].judged_level_3
          /\ workers[v].attempt >= 1
          /\ workers[v].attempt < ATTEMPTS_PER_WORKER

\* C12: no node, the root included, ever has itself in its own dependency list
C12_NoSelfLoop ==
    \A n \in NodeIds : ~InSeq(n, nodes[n].dependencies)

\* C13: every add_node(name, parent) step either finds no node under the normalised name and
\* creates one, or returns the existing node: one edge parent -> existing is appended, no
\* node is created and the name index is left as it was
C13_AddNodeDedups ==
    [][\E name \in GraphNames, parent \in NodeIds :
          LET g == Graph(nodes, nodes_by_name)
              existing == find_node_by_name(g, name)
          IN IF existing # 0
             THEN /\ nodes' = [nodes EXCEPT ![parent].dependencies = Append(@, existing)]
                  /\ nodes_by_name' = nodes_by_name
             ELSE /\ Len(nodes') = Len(nodes) + 1
                  /\ nodes'[Len(nodes')].name = Strip(name)
                  /\ nodes'[parent].dependencies = Append(nodes[parent].dependencies, Len(nodes'))
                  /\ nodes_by_name' = (NameKey(name) :> Len(nodes')) @@ nodes_by_name]_vars

\* C13 (as the code has it): every add_node(name, parent) step creates one new node named
\* by the trimmed name, appends it to the parent's dependency list and points the index
\* entry of the normalised name at it, whether or not that name was indexed before; the
\* other nodes and index entries are left as they were
C13_AddNodeAlwaysCreates ==
    [][\E name \in GraphNames, parent \in NodeIds :
          LET new == Len(nodes) + 1
          IN /\ Len(nodes') = new
             /\ nodes'[new].name = Strip(name)
             /\ nodes'[new].status = TO_EXPAND
             /\ nodes'[new].dependencies = <<>>
             /\ nodes'[new].parent = parent
             /\ nodes'[parent].dependencies = Append(nodes[parent].dependencies, new)
             /\ \A n \in NodeIds \ {parent} : nodes'[n] = nodes[n]
             /\ DOMAIN nodes_by_name' = DOMAIN nodes_by_name \cup {NameKey(name)}
             /\ nodes_by_name'[NameKey(name)] = new
             /\ \A k \in DOMAIN nodes_by_name \ {NameKey(name)} : nodes_by_name'[k] = nodes_by_name[k]]_vars

\* C13 witness: add_node was called with a name already indexed: two nodes share the
\* normalised name, both are dependencies of the same parent, the index points at the later
C13_Witness ==
    \E i, j, p \in NodeIds :
        /\ i < j
        /\ NameKey(nodes[i].name) = NameKey(nodes[j].name)
        /\ nodes[i].name # nodes[j].name
        /\ InSeq(i, nodes[p].dependencies) /\ InSeq(j, nodes[p].dependencies)
        /\ nodes_by_name[NameKey(nodes[i].name)] = j

\* number of occurrences of x in the sequence s
CountIn(x, s) == Cardinality({i \in 1..Len(s) : s[i] = x})

\* the nodes of the graph `ns` whose normalised name is `key`
NodesNamed(ns, key) == {n \in 1..Len(ns) : NameKey(ns[n].name) = key}

\* after node `cur` was expanded into names with the keys `keys`: every key has exactly one
\* node in the graph, and that node, unless it is `cur` itself, is exactly once in cur's
\* dependencies
ExpansionLinked(ns, cur, keys) ==
    \A k \in keys :
        /\ Cardinality(NodesNamed(ns, k)) = 1
        /\ \A n \in NodesNamed(ns, k) : n # cur => CountIn(n, ns[cur].dependencies) = 1

\* C14: whenever an expansion of a node names a sub-concept, the graph has exactly one node
\* of that normalised name and it is exactly once in the expanded node's dependency list;
\* edges are never removed or repeated later, so a sub-concept named by two nodes ends as
\* one node that is once in each of the two lists
C14_SharedSubConceptOnce ==
    /\ [](last_expansion.node # 0 =>
             ExpansionLinked(nodes, last_expansion.node, last_expansion.keys))
    /\ [][\A n \in NodeIds :
             /\ n \in 1..Len(nodes')
             /\ nodes'[n].name = nodes[n].name
             /\ \A d \in NodeIds : CountIn(d, nodes[n].dependencies) = 1
                                        => CountIn(d, nodes'[n].dependencies) = 1]_vars

\* C14 witness: after the run a sub-concept that is not the root is in the dependency lists
\* of two different nodes, once in each, and is the only node of its name
C14_Witness ==
    /\ pc = "planned"
    /\ \E n, p1, p2 \in NodeIds :
          /\ n # 1 /\ p1 # p2 /\ p1 # n /\ p2 # n
          /\ CountIn(n, nodes[p1].dependencies) = 1
          /\ CountIn(n, nodes[p2].dependencies) = 1
          /\ NodesNamed(nodes, NameKey(nodes[n].name)) = {n}

\* C15: a step of the decomposition changes a node's status only from TO_EXPAND, and only
\* to GROUNDED or TO_SYNTHESIZE; nodes are created with TO_EXPAND; so a status changes at
\* most once and never reverts
C15_StatusMonotonic ==
    [][/\ \A n \in NodeIds :
             /\ n \in 1..Len(nodes')
             /\ nodes'[n].status # nodes[n].status =>
                   /\ nodes[n].status = TO_EXPAND
                   /\ nodes'[n].status \in {GROUNDED, TO_SYNTHESIZE}
       /\ \A n \in (1..Len(nodes')) \ NodeIds : nodes'[n].status = TO_EXPAND]_vars

\* C15 witness: the root named g then t; g was grounded first, then t was expanded and named
\* g again; after the run g is still grounded and t needs synthesis
C15_Witness ==
    /\ pc = "planned"
    /\ \E g, t \in NodeIds \ {1} :
          /\ nodes[1].dependencies = <<g, t>>
          /\ nodes[g].status = GROUNDED
          /\ nodes[t].status = TO_SYNTHESIZE
          /\ InSeq(g, nodes[t].dependencies)

\* C16: a node enters the queue only when its normalised name is not yet in queue_log, and
\* is marked there by the same step; marks are never removed; so each name is enqueued
\* at most once, the queue never holds a node twice, and a node that was dequeued (probed,
\* expanded) is never enqueued again by a later reference
C16_EnqueuedOnce ==
    /\ [](/\ \A i, j \in 1..Len(queue) : i # j => queue[i] # queue[j]
          /\ \A i \in 1..Len(queue) : NameKey(nodes[queue[i]].name) \in queue_log)
    /\ [][/\ queue_log \subseteq queue_log'
          /\ \A n \in 1..Len(nodes') :
                (InSeq(n, queue') /\ ~InSeq(n, queue)) =>
                    /\ NameKey(nodes'[n].name) \notin queue_log
                    /\ NameKey(nodes'[n].name) \in queue_log'
                    /\ n \notin NodeIds]_vars

\* C16 witness: an expansion named a node that had already been dequeued and given its
\* status; the node was linked to the expanded node and is not in the queue
C16_Witness ==
    /\ pc = "plan_loop"
    /\ last_expansion.node > 1
    /\ \E n \in NodeIds \ {1, last_expansion.node} :
          /\ NameKey(nodes[n].name) \in last_expansion.keys
          /\ nodes[n].status # TO_EXPAND
          /\ InSeq(n, nodes[last_expansion.node].dependencies)
          /\ ~InSeq(n, queue)

\* the document has a synthesis block (separator line) naming `name`
HasBlockFor(doc, name) ==
    \E b \in 1..Len(doc.blocks) : \E i \in 1..Len(doc.blocks[b]) : doc.blocks[b][i] = Line("sep", name)

\* C17: the step that processes a grounded node adds its normalised name to the grounded
\* set and changes nothing else: no pool, no cache write, no piece of the document; no pool
\* is ever launched for a grounded node, and no document has a synthesis block naming one
C17_GroundedEmitsNothing ==
    /\ [][(pc = "synth_loop" /\ pos <= Len(build_order) /\ nodes[CurNode].status = GROUNDED) =>
             /\ grounded_set' = grounded_set \cup {normalize_node_name(nodes[CurNode].name)}
             /\ synthesized_cache' = synthesized_cache
             /\ final_code_pieces' = final_code_pieces
             /\ launched' = launched
             /\ workers' = workers
             /\ pc' = "synth_loop" /\ pos' = pos + 1]_vars
    /\ [](\A n \in NodeIds : nodes[n].status = GROUNDED =>
             /\ n \notin launched
             /\ ~HasBlockFor(final_lean_code, nodes[n].name)
             /\ pc \in {"align", "done", "loaded"} =>
                   ~HasBlockFor(result_summary.generated_code, nodes[n].name))

\* C17 witness: a compiled run whose graph has a grounded node that a synthesized node
\* depends on; the grounded name is in the grounded set and not in the cache
C17_Witness ==
    /\ pc = "align"
    /\ \E g, t \in NodeIds :
          /\ nodes[g].status = GROUNDED
          /\ InSeq(g, nodes[t].dependencies)
          /\ t \in launched
          /\ normalize_node_name(nodes[t].name) \in DOMAIN synthesized_cache
          /\ normalize_node_name(nodes[g].name) \in grounded_set
          /\ normalize_node_name(nodes[g].name) \notin DOMAIN synthesized_cache
          /\ HasBlockFor(final_lean_code, nodes[t].name)

\* the nodes reachable from the nodes of `from` along dependency edges in at most k steps
RECURSIVE ReachWithin(_, _)
ReachWithin(from, k) ==
    IF k = 0 THEN {}
    ELSE LET direct == UNION {{nodes[n].dependencies[i] : i \in 1..Len(nodes[n].dependencies)} : n \in from}
         IN direct \cup ReachWithin(direct, k - 1)

\* the transitive dependencies of n
TransitiveDeps(n) == ReachWithin({n}, Len(nodes))

\* n has a transitive dependency that is neither in the run cache nor in the grounded set
HasAbsentDependency(n) ==
    \E d \in TransitiveDeps(n) :
        /\ normalize_node_name(nodes[d].name) \notin DOMAIN synthesized_cache
        /\ normalize_node_name(nodes[d].name) \notin grounded_set

C19_OneNodeAtATime ==
    /\ [][(pc = "pool_exit" /\ pc' # "pool_exit") =>
             \A w \in WorkerIds : workers[w].pc = "done"]_vars
    /\ [][(pc \in {"synth_loop", "synth_done", "align", "done", "loaded"}) =>
             /\ \A w \in DOMAIN workers : workers[w].pc = "done"
             /\ (workers' # workers => (pc' = "pool" /\ \A w \in WorkerIds : workers'[w] = NewWorker))]_vars

\* C19 witness: the winner's result was taken and the collection loop was left while a
\* losing worker is still inside an attempt
C19_Witness ==
    /\ pc = "pool_exit"
    /\ Truthy(success_code)
    /\ pos < Len(build_order)
    /\ \E w \in WorkerIds : workers[w].pc \in {"generate", "gate", "compile"}

\* a thread is inside save or load: between taking _lock and giving it back
InsideKB(t) == kb_threads[t].pc \in {"save_load", "save_read", "save_write", "read", "exit"}

\* C20: no two threads are inside save_verified_nodes or load_knowledge_base at the same
\* time, the file changes only by the write of the thread that is inside save, and every
\* entry a completed save merged in is still in the file (no merge is lost)
C20_SaveLoadExclusive ==
    /\ \A t1, t2 \in DOMAIN kb_threads : (InsideKB(t1) /\ InsideKB(t2)) => t1 = t2
    /\ \A t \in DOMAIN kb_threads :
          kb_threads[t].saved # {} =>
             (kb_file.type = "dict" /\ kb_threads[t].saved \subseteq DOMAIN kb_file.entries)
    /\ \A t \in DOMAIN kb_threads :
          kb_threads[t].pc = "save_write" => kb_threads[t].existing_kb = load_knowledge_base(kb_file)

\* C20 witness: one thread is between its read and its write inside save while another
\* thread, which wants to save a different key, waits at the lock; an earlier save by the
\* waiting thread is in the file
C20_Witness ==
    \E t1, t2 \in DOMAIN kb_threads :
        /\ t1 # t2
        /\ kb_threads[t1].pc = "save_write"
        /\ kb_threads[t2].pc = "enter" /\ kb_threads[t2].op = "save"
        /\ DOMAIN kb_threads[t1].cache # DOMAIN kb_threads[t2].cache
        /\ kb_threads[t2].saved # {}
        /\ kb_lock = [owner |-> t1, depth |-> 1]

\* C21 (as stated): while a thread holds _lock inside save, the lock is never taken a
\* second time
C21_NoSecondAcquire ==
    kb_lock.depth <= 1

\* the steps a thread inside save still has to take before it has returned
SaveRank(p) ==
    CASE p = "save_load" -> 4
      [] p = "save_read" -> 3
      [] p = "save_write" -> 2
      [] p = "exit" -> 1
      [] OTHER -> 0

\* C21 (as the code has it): save takes _lock a second time through its call of load; the
\* lock is re-entrant, so the holder is never blocked on it: at each position inside save
\* the thread's next step can be taken, each of its steps brings it closer to the return,
\* the inner hold is given back before the write, and the lock is free of the thread once
\* it has returned
C21_ReentrantSaveCompletes ==
    /\ [](\A t \in DOMAIN kb_threads :
             /\ kb_threads[t].pc = "save_load" =>
                   (kb_lock = [owner |-> t, depth |-> 1] /\ lock_acquirable(kb_lock, t))
             /\ kb_threads[t].pc = "save_read" => kb_lock = [owner |-> t, depth |-> 2]
             /\ kb_threads[t].pc = "save_write" => kb_lock = [owner |-> t, depth |-> 1]
             /\ kb_threads[t].pc = "idle" => kb_lock.owner # t
             /\ SaveRank(kb_threads[t].pc) > 0 => ENABLED KBThreadStep(t))
    /\ [][\A t \in DOMAIN kb_threads :
             (kb_threads[t].op = "save" /\ SaveRank(kb_threads[t].pc) > 0
              /\ kb_threads'[t] # kb_threads[t]) =>
                SaveRank(kb_threads'[t].pc) = SaveRank(kb_threads[t].pc) - 1]_vars

\* C21: under fair scheduling of the threads every call of save that entered returns
C21_SaveReturns ==
    \A t \in KBThreads :
        (kb_threads[t].pc = "save_load") ~> (kb_threads[t].pc = "idle" /\ kb_lock.owner # t)

\* C21 witness: a thread inside save holds the lock twice while another thread waits for it
C21_Witness ==
    \E t1, t2 \in DOMAIN kb_threads :
        /\ t1 # t2
        /\ kb_threads[t1].pc = "save_read"
        /\ kb_lock = [owner |-> t1, depth |-> 2]
        /\ kb_threads[t2].pc = "enter"

\* C22: whatever the point at which the process crashed inside save, every entry that a
\* completed save had persisted is still returned by load, now and after later saves
C22_CrashSafeMerge ==
    \A t \in DOMAIN kb_threads :
        kb_threads[t].saved \subseteq DOMAIN load_knowledge_base(kb_file)

\* C23: every item of a batch yields a result record and the batch always proceeds to the
\* next item: the run of main() is never ended by an exception of one problem, an
\* exception of a stage is recorded with status "error" and its text, and a finished
\* batch has written one record per task
C23_EveryItemYieldsRecord ==
    /\ batch.pc # "crashed"
    /\ \A i \in 1..Len(batch.summary) :
          /\ batch.summary[i].index = i
          /\ batch.summary[i].error # "None" <=> batch.summary[i].status = "error"
    /\ batch.pc = "finished" => Len(batch.summary) = Len(batch.tasks)

\* C24: a web search makes at most max_retries + 1 requests, one per loop iteration; it
\* returns the parsed result of the first request that succeeds, every earlier request
\* having failed, and the empty list once max_retries + 1 requests have failed; every
\* failure is caught, so the only way out of the loop is a return
C24_BoundedRetry ==
    /\ search.pc \in {"idle", "loop", "returned"}
    /\ search.requests <= LEANSEARCH_MAX_RETRIES + 1
    /\ search.sleeps <= LEANSEARCH_MAX_RETRIES
    /\ search.pc = "loop" =>
          /\ search.requests = search.attempt
          /\ Len(search.errors) = search.requests
    /\ search.pc = "returned" =>
          \/ search.requests = Len(search.errors) + 1
          \/ /\ Len(search.errors) = LEANSEARCH_MAX_RETRIES + 1
             /\ search.requests = LEANSEARCH_MAX_RETRIES + 1
             /\ search.result = <<>>

\* the last permitted request succeeds after max_retries failures
C24_Witness ==
    /\ search.pc = "returned"
    /\ search.requests = LEANSEARCH_MAX_RETRIES + 1
    /\ Len(search.errors) = LEANSEARCH_MAX_RETRIES
    /\ search.result # <<>>

\* a worker is between the decision to compile and the return of its compile_code call
CompileInFlight(w) == workers[w].pc = "compile"

\* C25: no two compile calls in flight at the same time use the same temporary file name:
\* the workers of a pool have pairwise distinct names, and the workers of a pool are
\* dropped, so that the next node's pool can use their names again, only when none of them
\* is still inside a compile call
C25_TempNamesDisjoint ==
    /\ [](\A w1, w2 \in DOMAIN workers :
             (/\ CompileInFlight(w1)
              /\ CompileInFlight(w2)
              /\ temp_file_name(request_id(w1)) = temp_file_name(request_id(w2))) => w1 = w2)
    /\ [][(workers # <<>> /\ workers' # workers /\ \E w \in DOMAIN workers : CompileInFlight(w))
             => DOMAIN workers' = DOMAIN workers]_vars

\* C25 witness: two workers of the pool of a second node are inside compile calls at once
C25_Witness ==
    /\ Cardinality(launched) >= 2
    /\ \E w1, w2 \in DOMAIN workers :
          w1 # w2 /\ CompileInFlight(w1) /\ CompileInFlight(w2)

ExitPaths == {"success", "compile failure", "timeout", "missing executable",
              "other exception", "makedirs failed"}

\* C26 as stated: when compile_code has returned, the temporary file does not exist
C26_TempFileGone ==
    compile_call.pc = "returned" => ~compile_call.file_exists

\* C26: compile_code returns only through its finally block, on every exit path; when it
\* has returned, the temporary file does not exist unless the removal itself failed, in
\* which case the failure was swallowed and the file is still there
C26_TempFileRemovedUnlessRemoveFails ==
    /\ compile_call.pc = "returned" =>
          /\ compile_call.exit_path \in ExitPaths
          /\ compile_call.status = status_of(compile_call.exit_path)
          /\ compile_call.file_exists <=> compile_call.remove_failed
    /\ compile_call.written /\ compile_call.pc \in {"run", "finally"} => compile_call.file_exists

\* C26 witness: the compiler timed out on a file the call wrote, and the file is gone
C26_Witness ==
    /\ compile_call.pc = "returned"
    /\ compile_call.written
    /\ compile_call.exit_path = "timeout"
    /\ ~compile_call.file_exists

\* the identifiers a grounding channel accepted
Accepted(res) == IF res.is_found THEN res.definitions ELSE {}

\* C27: whatever the two channels answer for the node at the head of the queue, the node's
\* grounding result is the union of the identifiers the text channel accepted and, only
\* when an image is supplied, those the vision channel accepted; the node becomes GROUNDED
\* with that union when it is non-empty, and otherwise becomes TO_SYNTHESIZE and is the
\* node the expansion call is made for
C27_GroundingIsUnion ==
    [][(pc = "plan_loop" /\ queue # <<>>) =>
          \A rt \in GroundResults, rv \in GroundResults :
             (\E deps \in GroundExpansions : PlannerProcessNode(rt, rv, deps)) =>
                LET n == Head(queue)
                    union == Accepted(rt) \cup (IF image_path THEN Accepted(rv) ELSE {})
                IN IF union # {}
                   THEN /\ nodes'[n].status = GROUNDED
                        /\ nodes'[n].grounded_definition = PyList(union)
                        /\ nodes'[n].dependencies = <<>>
                        /\ Len(nodes') = Len(nodes)
                   ELSE /\ nodes'[n].status = TO_SYNTHESIZE
                        /\ nodes'[n].grounded_definition = PyList({})
                        /\ last_expansion'.node = n]_vars

\* C27 witness: with an image supplied, a node is grounded by both identifiers although
\* no single channel gave both
C27_Witness ==
    /\ image_path
    /\ \E n \in 2..Len(nodes) :
          /\ nodes[n].status = GROUNDED
          /\ nodes[n].grounded_definition = PyList({"D1", "D2"})
    /\ \E n \in 2..Len(nodes) : nodes[n].status = TO_SYNTHESIZE /\ nodes[n].dependencies # <<>>

C29_BoundedAttemptsOwnRepair ==
    /\ [](\A w \in DOMAIN workers :
             /\ workers[w].attempt <= ATTEMPTS_PER_WORKER
             /\ workers[w].gen_calls <= ATTEMPTS_PER_WORKER
             /\ workers[w].compile_calls <= workers[w].gen_calls
             /\ workers[w].gen_calls \in {workers[w].attempt, workers[w].attempt + 1}
             /\ workers[w].attempt = ATTEMPTS_PER_WORKER => workers[w].pc \in {"boundary", "done"})
    /\ [][\A w \in DOMAIN workers :
             (w \in DOMAIN workers' /\ workers'[w].gen_calls = workers[w].gen_calls + 1) =>
                IF workers[w].attempt = 0
                THEN workers'[w].call = LLMCall("synthesis", <<>>, "")
                ELSE /\ workers'[w].call.kind = "reflection"
                     /\ workers'[w].call.failed_code = workers[w].current_code
                     /\ workers'[w].call.error_message = workers[w].error_message
                     /\ workers[w].error_message # ""]_vars

\* C29 witness: both workers are in their second attempt, repairing different failed code
C29_Witness ==
    /\ workers # <<>>
    /\ \A w \in WorkerIds : workers[w].call.kind = "reflection" /\ workers[w].pc = "compile"
    /\ workers[0].call.failed_code # workers[1].call.failed_code

\* the name a chunk of the dependency context is labelled with, and the code it carries
ChunkName(chunk) == chunk[1].v
ChunkCode(chunk) == Tail(chunk)

\* C30: the dependency context handed to the pool of a needs-synthesis node has, for
\* every transitive dependency that required synthesis, a chunk carrying the code the run
\* cache holds for it; no name labels two chunks; and the chunk of a dependency comes
\* before the chunk of any dependency that depends on it
C30_ContextCompleteOrdered ==
    PoolRunning =>
       /\ \A d \in TransitiveDeps(CurNode) :
             nodes[d].status = TO_SYNTHESIZE =>
                \E i \in 1..Len(dep_chunks) :
                   /\ ChunkName(dep_chunks[i]) = normalize_node_name(nodes[d].name)
                   /\ ChunkCode(dep_chunks[i]) = synthesized_cache[normalize_node_name(nodes[d].name)]
       /\ \A i, j \in 1..Len(dep_chunks) :
             ChunkName(dep_chunks[i]) = ChunkName(dep_chunks[j]) => i = j
       /\ \A i, j \in 1..Len(dep_chunks) : \A d, e \in TransitiveDeps(CurNode) :
             (/\ ChunkName(dep_chunks[i]) = normalize_node_name(nodes[d].name)
              /\ ChunkName(dep_chunks[j]) = normalize_node_name(nodes[e].name)
              /\ normalize_node_name(nodes[d].name) # normalize_node_name(nodes[e].name)
              /\ e \in TransitiveDeps(d)) => j < i

\* the nodes the synthesis loop has passed
PassedNodes == {build_order[i] : i \in 1..(pos - 1)}

\* C31: a node whose concept the persistent cache holds is grounded via the cache by
\* decomposition, and once the synthesis loop has passed it the run's SynthesizedCache
\* holds its cached artifact and the cached artifact of each of its cached dependencies
C31_CachedNodeSpliced ==
    (pc \in {"synth_loop", "pool", "pool_exit"} /\ kb_file.type = "dict") =>
       \A n \in PassedNodes :
          LET key == NameKey(nodes[n].name)
          IN key \in DOMAIN kb_file.entries =>
                /\ nodes[n].status = GROUNDED
                /\ key \in DOMAIN synthesized_cache
                /\ synthesized_cache[key] = kb_file.entries[key].code
                /\ \A i \in 1..Len(kb_file.entries[key].deps) :
                      kb_file.entries[key].deps[i] \in DOMAIN synthesized_cache

\* two lines of Lean text are the same line
SameLine(x, y) == x.t = y.t /\ x.v = y.v

\* C32: in the final document every header line occurs once in the header, no import line
\* is left inside a code block, and no line of the header is repeated inside a code block
C32_HeaderLinesOnce ==
    final_lean_code # NoDocument =>
       /\ \A i, j \in 1..Len(final_lean_code.imports) :
             SameLine(final_lean_code.imports[i], final_lean_code.imports[j]) => i = j
       /\ \A b \in 1..Len(final_lean_code.blocks) : \A k \in 1..Len(final_lean_code.blocks[b]) :
             /\ ~IsImportLine(final_lean_code.blocks[b][k])
             /\ \A i \in 1..Len(final_lean_code.imports) :
                   ~SameLine(final_lean_code.imports[i], final_lean_code.blocks[b][k])

\* C33: when the aligner back-translates a node, every direct dependency of the node whose
\* key is in the SynthesizedCache has been back-translated before and is part of the
\* context supplied
C33_DependencyContextSupplied ==
    pc = "align" =>
       LET calls == back_translation(nodes, synthesized_cache).calls
       IN \A c \in 1..Len(calls) :
             \A d \in 1..Len(nodes[calls[c].node].dependencies) :
                LET dep == nodes[calls[c].node].dependencies[d]
                IN normalize_node_name(nodes[dep].name) \in DOMAIN synthesized_cache =>
                      /\ InSeq(dep, calls[c].nl_context)
                      /\ \E e \in 1..(c - 1) :
                            normalize_node_name(nodes[calls[e].node].name)
                               = normalize_node_name(nodes[dep].name)


\* C34: when the pool of a node is left after some worker obtained an accepted compile
\* (the only place that sets stop_event), the node is not marked failed: its artifact is
\* in the cache and in the document pieces, and the loop goes on with the next node
C34_AcceptedCompileAdmitsNode ==
    [][(pc = "pool_exit" /\ pc' # "pool_exit" /\ stop_event) =>
          /\ pc' = "synth_loop"
          /\ pos' = pos + 1
          /\ normalize_node_name(nodes[CurNode].name) \in DOMAIN synthesized_cache'
          /\ Len(final_code_pieces') = Len(final_code_pieces) + 1
          /\ final_code_pieces'[Len(final_code_pieces')][1].t = "sep"]_vars


\* C35: a record with compilation_passed = TRUE belongs to a run in which every
\* TO_SYNTHESIZE node of the build order, the root included, has an artifact in the cache
C35_CompilationPassedMeansAllCompiled ==
    result_summary.compilation_passed =>
       \A i \in 1..Len(build_order) :
          nodes[build_order[i]].status = TO_SYNTHESIZE =>
             normalize_node_name(nodes[build_order[i]].name) \in DOMAIN synthesized_cache


\* the step in which thread t, inside save_verified_nodes, writes the file
SaveWrites(t) == kb_threads[t].pc = "save_write" /\ kb_threads'[t].pc = "exit"

\* the items of the file before the step (none when the file is missing or does not parse)
PersistedKeys == IF kb_file.type = "dict" THEN DOMAIN kb_file.entries ELSE {}

PlanKeys == {NameKey(n) : n \in PlanChildNames} \cup {NameKey(s) : s \in PlanStatements}

\* number of steps the decomposition can still take at most
PlanRank ==
    IF pc = "plan_root" THEN Cardinality(PlanKeys) + 1
    ELSE IF pc = "plan_loop" THEN 1 + Len(queue) + Cardinality(PlanKeys \ queue_log)
    ELSE 0

\* the next step of GoTPlanner.run
PlannerStep ==
    \/ \E deps \in PlanExpansions : PlannerExpandRoot(deps)
    \/ \E rt \in TextResults, rv \in VisionResults, deps \in PlanExpansions :
          PlannerProcessNode(rt, rv, deps)
    \/ PlannerReturn

\* C37: with expansion answers over a finite set of names the decomposition terminates:
\* while it runs its next step can be taken and each step lowers a bounded rank; a node is
\* on the queue at most once, from its creation until it is dequeued, and never again; a
\* non-root node off the queue has been given its status; and when run returns the queue
\* is empty and every node is GROUNDED or TO_SYNTHESIZE
C37_DecompositionTerminates ==
    /\ [](pc \in {"plan_root", "plan_loop"} => (PlanRank > 0 /\ ENABLED PlannerStep))
    /\ [][(pc \in {"plan_root", "plan_loop"}) => (PlanRank' < PlanRank)]_vars
    /\ [](pc = "plan_loop" =>
             /\ \A i, j \in 1..Len(queue) : queue[i] = queue[j] => i = j
             /\ \A i \in 1..Len(queue) :
                   queue[i] \in 2..Len(nodes) /\ nodes[queue[i]].status = TO_EXPAND
             /\ \A n \in 2..Len(nodes) :
                   InSeq(n, queue) \/ nodes[n].status \in {GROUNDED, TO_SYNTHESIZE})
    /\ [][(pc = "plan_loop" /\ pc' = "plan_loop") =>
             /\ ~InSeq(Head(queue), queue')
             /\ \A n \in 1..Len(nodes) : (~InSeq(n, queue)) => ~InSeq(n, queue')]_vars
    /\ [](pc = "planned" =>
             /\ queue = <<>>
             /\ \A n \in 1..Len(nodes) : nodes[n].status \in {GROUNDED, TO_SYNTHESIZE})

\* a run returned a graph with a grounded node and an expanded non-root node
C37_Witness ==
    /\ pc = "planned"
    /\ Len(nodes) = 3
    /\ \E n, m \in 2..Len(nodes) :
          nodes[n].status = GROUNDED /\ nodes[m].status = TO_SYNTHESIZE


\* C38: the build order of a graph the decomposition produced lists every node of the
\* graph exactly once, and its last element is the root
C38_BuildOrderPermutationRootLast ==
    pc \in {"ordered", "reordered"} =>
        /\ Len(build_order) = Len(nodes)
        /\ {build_order[i] : i \in 1..Len(build_order)} = 1..Len(nodes)
        /\ \A i, j \in 1..Len(build_order) : build_order[i] = build_order[j] => i = j
        /\ build_order[Len(build_order)] = 1

\* the build order of a three-node graph with a cycle and a node shared by two dependents
C38_Witness ==
    /\ pc = "ordered"
    /\ Len(nodes) = 3
    /\ \E n \in 2..3 : InSeq(1, nodes[n].dependencies)
    /\ \E n \in 2..3 : InSeq(n, nodes[1].dependencies) /\ InSeq(n, nodes[5 - n].dependencies)


\* C39: at every point of a run every GROUNDED node has an empty dependency list
C39_GroundedNodesAreLeaves ==
    \A n \in 1..Len(nodes) : nodes[n].status = GROUNDED => nodes[n].dependencies = <<>>

\* a grounded node that two expanded nodes depend on, while the queue is still at work
C39_Witness ==
    /\ pc = "plan_loop"
    /\ \E n, p1, p2 \in 1..Len(nodes) :
          /\ nodes[n].status = GROUNDED
          /\ p1 # p2
          /\ InSeq(n, nodes[p1].dependencies) /\ InSeq(n, nodes[p2].dependencies)
          /\ last_expansion.node = p2


\* C40: in every record written semantic_passed implies compilation_passed and the status
\* is "success" exactly when semantic_passed is true; the batch's semantic_count is at most
\* its compiled_count, which is at most the number of items processed
C40_RecordFlagsAndCounts ==
    /\ \A i \in 1..Len(batch.summary) :
          /\ batch.summary[i].semantic_passed => batch.summary[i].compilation_passed
          /\ batch.summary[i].status = "success" <=> batch.summary[i].semantic_passed
    /\ batch.semantic_count <= batch.compiled_count
    /\ batch.compiled_count <= batch.i

\* the parts of C40 that hold: the implication between the flags, "success" only with
\* semantic_passed, and the order of the counts
C40_FlagsOrdered ==
    /\ \A i \in 1..Len(batch.summary) :
          /\ batch.summary[i].semantic_passed => batch.summary[i].compilation_passed
          /\ batch.summary[i].status = "success" => batch.summary[i].semantic_passed
    /\ batch.semantic_count <= batch.compiled_count
    /\ batch.compiled_count <= batch.i
    /\ batch.i = Len(batch.summary)

====
